---- MODULE Spec2Model ----
(***************************************************************************)
(* A model of the latcha challenge engine: the single-use challenge store   *)
(* and verifier of packages/core, the web store built on top of it, and the *)
(* distractor synthesis of the multiple-choice generators.                  *)
(*                                                                          *)
(* A JavaScript string is a sequence of one-character strings; an answer is *)
(* a record [arr, v]: arr says whether it is an array (Array.isArray), v is *)
(* the string or the sequence of strings.                                   *)
(***************************************************************************)
EXTENDS Integers, Sequences, FiniteSets, TLC

VARIABLES
  store,      \* verifier.ts `store`: the Map id -> Challenge, as a function on the stored ids
  now,        \* the clock Date.now() reads
  last,       \* the most recent call on the store: its arguments, the clock and the
              \* store it saw, the branch it took and the value it returned
  verified,   \* ids verify has been called for since storeChallenge last inserted them
  nx, ny, nyy, npc,   \* normalizeAnswer applied to an input, and to its own result
  db,         \* web store: the rows of the captcha_challenges table, by id
  memoryBackedChallengeIds,   \* challenge-store.ts: ids that fell back to the in-memory store
  configured, \* hasSupabaseServerConfig()
  proc,       \* web store: the position and locals of each request in flight
  stores,     \* web store: storeChallenge calls completed, per id
  successes,  \* web store: verifyChallenge calls that returned success = true, per id
  gpc,        \* generate(): where the call stands
  gen,        \* generate(): the id of the generator called
  token,      \* generate(): the secret
  distractors,   \* generatePermutationDistractors: the Set of distractors collected
  attempts,   \* generatePermutationDistractors: the attempts made
  challenge,  \* the Challenge the last generate() returned
  fpc,   \* illusion generators: where the call of generate() stands
  env,   \* process.env.FAL_KEY and the generations/face-sources directory
  fgen,   \* illusion generators: the id of the generator called
  shell,   \* createChallengeShell(): the id and the expiry of the challenge
  faceCount,   \* illusion-faces: the number of face cells drawn
  shuffledIndices,   \* illusion-faces: the cell indices under shuffle
  si,   \* shuffle: the index i of its loop
  faceCellIndices,   \* illusion-faces: the face cells, sorted
  cellFacePaths,   \* illusion-faces: the face file of each face cell
  cell,   \* illusion-faces: the cell the loop stands at
  images,   \* illusion generators: the images synthesised so far
  requests,   \* the cells whose synthesis was requested of the external service, in order
  failedCells,   \* the cells whose synthesis failed
  character,   \* illusion-diffusion: the hidden letter
  answerOptions,   \* illusion-diffusion: the options
  result,   \* what generate() returned or threw
  bpc,   \* buildChallenge: where the call stands
  buildId,   \* buildChallenge: the generator id it was called with
  invoked,   \* the generators whose generate() was called, in order
  invokedBefore,   \* invoked, as the last call of buildChallenge found it
  generated,   \* how the generate() the last call made settled
  built,   \* how the last call of buildChallenge settled
  epc,   \* runEvalOnChallenges: where the run stands
  harness,   \* which copy of the runner is followed
  challenges,   \* runEvalOnChallenges: options.challenges
  mi,   \* runEvalOnChallenges: the index of the model of the outer loop
  ci,   \* runEvalOnChallenges: the index i of the inner loop
  results,   \* runEvalOnChallenges: the results of the model at hand
  modelResults,   \* runEvalOnChallenges: the results of the models done
  inFlight,   \* calls of evaluateWithModel that have not settled
  evalLog,   \* the starts and ends of the calls of evaluateWithModel, in order
  thrown,   \* the calls of evaluateWithModel that threw, as <<model, challenge>>
  rpc,   \* GET /api/challenge: where the request stands
  request,   \* GET /api/challenge: the query parameters generator and source
  rchallenge,   \* GET /api/challenge: the challenge built
  reply,   \* GET /api/challenge: the response sent
  wstate,   \* LatchaWidget: state
  wchallenge,   \* LatchaWidget: challenge, the challenge displayed
  errorMsg,   \* LatchaWidget: errorMsg
  inFlightRequests,   \* LatchaWidget: the requests in flight
  sent,   \* LatchaWidget: the requests sent
  onVerifyCalls,   \* the calls of onVerify, with the answer and the challenge displayed at each
  onErrorCalls,   \* the calls of onError
  successAnswers,   \* the answers of the verify endpoint with success = true
  verifiedAt,   \* the number of calls of onVerify when the widget entered success, 0 before
  pendingEntries,   \* latcha-pending-store.ts: pending, the Map id -> entry
  pnow,   \* the clock Date.now() reads in the pending store
  pticks,   \* the advances of that clock
  plast,   \* the most recent request to the widget endpoints: its input, the entries and the clock it found, its answer
  handed,   \* per id, the issuances since the last verification that consumed it
  returned,   \* per id, the entries consumePending has returned since the id was last stored
  consumedSince,   \* the ids consumePending was called for since they were last stored
  issuedIds,   \* the ids of the challenges issued, in order, with where each came from
  ipc,   \* whether challenges are being issued
  altPc,   \* ensureFourAlternatives: where the call stands
  correctAlternative,   \* ensureFourAlternatives: correctAlternative
  altBase,   \* ensureFourAlternatives: base
  altSeen,   \* ensureFourAlternatives: seen
  alternatives,   \* ensureFourAlternatives: the list returned
  parsePc,   \* parseAnswer: whether a response was parsed, and its result parsed again
  parseRaw,   \* parseAnswer: raw, the response parsed last
  parseOut   \* parseAnswer: what it returned

vars == <<store, now, last, verified, nx, ny, nyy, npc, db, memoryBackedChallengeIds,
          configured, proc, stores, successes, gpc, gen, token, distractors, attempts,
          challenge,
          fpc, env, fgen, shell, faceCount, shuffledIndices, si, faceCellIndices,
          cellFacePaths, cell, images, requests, failedCells, character, answerOptions,
          result, bpc, buildId, invoked, invokedBefore, generated, built, epc, harness,
          challenges, mi, ci, results, modelResults, inFlight, evalLog, thrown, rpc,
          request, rchallenge, reply, wstate, wchallenge, errorMsg, inFlightRequests, sent,
          onVerifyCalls, onErrorCalls, successAnswers, verifiedAt, pendingEntries, pnow,
          pticks, plast, handed, returned, consumedSince, issuedIds, ipc, altPc,
          correctAlternative, altBase, altSeen, alternatives, parsePc, parseRaw, parseOut>>

coreVars == <<store, now, last, verified>>
normVars == <<nx, ny, nyy, npc>>
webVars  == <<db, memoryBackedChallengeIds, configured, proc, stores, successes>>
genVars  == <<gpc, gen, token, distractors, attempts, challenge>>
faceVars ==
  <<fpc, env, fgen, shell, faceCount, shuffledIndices, si, faceCellIndices, cellFacePaths,
    cell, images, requests, failedCells, character, answerOptions, result>>
buildVars ==
  <<bpc, buildId, invoked, invokedBefore, generated, built>>
evalVars ==
  <<epc, harness, challenges, mi, ci, results, modelResults, inFlight, evalLog, thrown>>
routeVars ==
  <<rpc, request, rchallenge, reply>>
widgetVars ==
  <<wstate, wchallenge, errorMsg, inFlightRequests, sent, onVerifyCalls, onErrorCalls,
    successAnswers, verifiedAt>>
pendVars ==
  <<pendingEntries, pnow, pticks, plast, handed, returned, consumedSince>>
issueVars ==
  <<issuedIds, ipc>>
altVars ==
  <<altPc, correctAlternative, altBase, altSeen, alternatives>>
parseVars ==
  <<parsePc, parseRaw, parseOut>>

\* the variables of the parts added to the store, the verifier and the permutation generators
outerVars == <<faceVars, buildVars, evalVars, routeVars, widgetVars, pendVars, issueVars, altVars, parseVars>>

----------------------------------------------------------------------------
(* Bounds of the model *)

MaxTime == 3        \* the clock runs over 0..MaxTime
MaxLen == 3         \* longest string answer drawn as an input of normalizeAnswer
MaxElemLen == 1     \* longest element of an array answer drawn as an input
MaxArr == 2         \* longest array answer drawn as an input of normalizeAnswer
MaxStores == 2      \* storeChallenge calls on the web store, per challenge id
MaxBuilds == 2      \* calls of buildChallenge that reach a generator
MaxRequests == 4    \* requests the widget sends to its endpoints
MaxHanded == 2      \* issuances of one challenge id with no verification between
MaxTicks == 3       \* advances of the clock of the pending store
MaxIssued == 3      \* challenges issued
MaxPoolDraws == 4   \* characters of the pool a one-character distractor is drawn from
MaxDigitDraw == 1   \* largest digit appended to a one-character distractor
MaxRawLen == 4      \* characters of a response parsed

----------------------------------------------------------------------------
(* Program constants *)

MaxAttempts == 200  \* generatePermutationDistractors gives up after 200 attempts
GRID_CELLS == 9     \* illusion-faces: the cells of the 3x3 grid
CHALLENGE_TTL_MS == 300000   \* BaseGenerator: a challenge lives five minutes

----------------------------------------------------------------------------
(* Strings *)

Range(s) == {s[i] : i \in 1..Len(s)}

\* UTF-16 code units of the characters the model draws; Array.prototype.sort
\* compares strings by them.
CodeUnit(c) ==
  CASE c = " " -> 32 [] c = "," -> 44
    [] c = "0" -> 48 [] c = "1" -> 49 [] c = "2" -> 50 [] c = "3" -> 51 [] c = "4" -> 52
    [] c = "5" -> 53 [] c = "6" -> 54 [] c = "7" -> 55 [] c = "8" -> 56 [] c = "9" -> 57
    [] c = "A" -> 65 [] c = "B" -> 66 [] c = "C" -> 67 [] c = "D" -> 68
    [] c = "a" -> 97 [] c = "b" -> 98

DigitChars == <<"0", "1", "2", "3", "4", "5", "6", "7", "8", "9">>

IsDigit(c) == c \in Range(DigitChars)

DigitVal(c) == CHOOSE n \in 0..9 : DigitChars[n + 1] = c

IsSpace(c) == c = " "

\* String.prototype.toUpperCase, one character
UpperChar(c) == CASE c = "a" -> "A" [] c = "b" -> "B" [] OTHER -> c

ToUpperCase(s) == [i \in 1..Len(s) |-> UpperChar(s[i])]

RECURSIVE TrimStart(_)
TrimStart(s) == IF s # <<>> /\ IsSpace(Head(s)) THEN TrimStart(Tail(s)) ELSE s

RECURSIVE TrimEnd(_)
TrimEnd(s) ==
  IF s # <<>> /\ IsSpace(s[Len(s)]) THEN TrimEnd(SubSeq(s, 1, Len(s) - 1)) ELSE s

\* String.prototype.trim
Trim(s) == TrimEnd(TrimStart(s))

\* a < b in the order Array.prototype.sort() uses without a comparator
RECURSIVE StrLess(_, _)
StrLess(a, b) ==
  IF b = <<>> THEN FALSE
  ELSE IF a = <<>> THEN TRUE
  ELSE IF Head(a) # Head(b) THEN CodeUnit(Head(a)) < CodeUnit(Head(b))
  ELSE StrLess(Tail(a), Tail(b))

RECURSIVE Insert(_, _)
Insert(x, sorted) ==
  IF sorted = <<>> THEN <<x>>
  ELSE IF StrLess(x, Head(sorted)) THEN <<x>> \o sorted
  ELSE <<Head(sorted)>> \o Insert(x, Tail(sorted))

\* Array.prototype.sort() on an array of strings
RECURSIVE Sort(_)
Sort(a) == IF a = <<>> THEN <<>> ELSE Insert(Head(a), Sort(Tail(a)))

\* Array.prototype.join(',')
RECURSIVE Join(_)
Join(a) ==
  IF a = <<>> THEN <<>>
  ELSE IF Len(a) = 1 THEN a[1]
  ELSE a[1] \o <<",">> \o Join(Tail(a))

\* String.prototype.split(','): the empty string splits into one empty string
RECURSIVE SplitFrom(_, _)
SplitFrom(s, cur) ==
  IF s = <<>> THEN <<cur>>
  ELSE IF Head(s) = "," THEN <<cur>> \o SplitFrom(Tail(s), <<>>)
  ELSE SplitFrom(Tail(s), Append(cur, Head(s)))

Split(s) == SplitFrom(s, <<>>)

RECURSIVE DigitsValue(_, _)
DigitsValue(s, acc) ==
  IF s = <<>> THEN acc ELSE DigitsValue(Tail(s), 10 * acc + DigitVal(Head(s)))

\* Number(s) for the strings of the model: blank is 0, a run of digits is its value,
\* anything else is NaN
Number(s) ==
  LET t == Trim(s) IN
    IF t = <<>> THEN [nan |-> FALSE, val |-> 0]
    ELSE IF \A i \in 1..Len(t) : IsDigit(t[i]) THEN [nan |-> FALSE, val |-> DigitsValue(t, 0)]
    ELSE [nan |-> TRUE, val |-> 0]

Str(a) == [arr |-> FALSE, v |-> a]
Arr(a) == [arr |-> TRUE, v |-> a]

----------------------------------------------------------------------------
(* packages/core/src/challenge/verifier.ts *)

\* normalizeAnswer without the sort of an array answer
NormalizeAnswerUnsorted(answer) ==
  IF answer.arr
    THEN Join([i \in 1..Len(answer.v) |-> ToUpperCase(Trim(answer.v[i]))])
    ELSE ToUpperCase(Trim(answer.v))

NormalizeAnswer(answer) ==
  IF answer.arr
    THEN Join(Sort([i \in 1..Len(answer.v) |-> ToUpperCase(Trim(answer.v[i]))]))
    ELSE ToUpperCase(Trim(answer.v))

\* .split(',').map((s) => Number(s)).filter((n) => !isNaN(n) && n > 0), as a Set
ParsedNums(normalized) ==
  LET parts == Split(normalized) IN
    {Number(parts[i]).val : i \in {j \in 1..Len(parts) :
        ~Number(parts[j]).nan /\ Number(parts[j]).val > 0}}

\* isAnswerCorrect with the tolerance applied whatever the type of correctAnswer
IsAnswerCorrectAnyType(submitted, correct) ==
  LET normalizedSubmitted == NormalizeAnswer(submitted)
      normalizedCorrect == NormalizeAnswer(correct)
      correctSet == ParsedNums(normalizedCorrect)
      submittedSet == ParsedNums(normalizedSubmitted)
  IN  IF normalizedSubmitted = normalizedCorrect THEN TRUE
      ELSE IF correctSet = {} \/ submittedSet = {} THEN FALSE
      ELSE Cardinality(correctSet \ submittedSet)
             + Cardinality(submittedSet \ correctSet) <= 1

\* isAnswerCorrect accepting two errors
IsAnswerCorrectTwoErrors(submitted, correct) ==
  LET normalizedSubmitted == NormalizeAnswer(submitted)
      normalizedCorrect == NormalizeAnswer(correct)
      correctSet == ParsedNums(normalizedCorrect)
      submittedSet == ParsedNums(normalizedSubmitted)
  IN  IF normalizedSubmitted = normalizedCorrect THEN TRUE
      ELSE IF ~correct.arr THEN FALSE
      ELSE IF correctSet = {} \/ submittedSet = {} THEN FALSE
      ELSE Cardinality(correctSet \ submittedSet)
             + Cardinality(submittedSet \ correctSet) <= 2

IsAnswerCorrect(submitted, correct) ==
  LET normalizedSubmitted == NormalizeAnswer(submitted)
      normalizedCorrect == NormalizeAnswer(correct)
      correctSet == ParsedNums(normalizedCorrect)
      submittedSet == ParsedNums(normalizedSubmitted)
  IN  IF normalizedSubmitted = normalizedCorrect THEN TRUE
      ELSE IF ~correct.arr THEN FALSE
      \* the two lengths are 0 exactly when the two Sets are empty
      ELSE IF correctSet = {} \/ submittedSet = {} THEN FALSE
      ELSE Cardinality(correctSet \ submittedSet)
             + Cardinality(submittedSet \ correctSet) <= 1

EmptyMap == [i \in {} |-> 0]

\* Map.prototype.set on a function
MapSet(m, k, v) == [i \in DOMAIN m \cup {k} |-> IF i = k THEN v ELSE m[i]]

\* Map.prototype.clear in the place of delete
MapClear(m, k) == EmptyMap

\* Map.prototype.delete on a function
MapDelete(m, k) == [i \in DOMAIN m \ {k} |-> m[i]]

\* verify that leaves the entry in the store when the answer is wrong
VerifyKeepOnWrong(st, response, clock) ==
  IF response.challengeId \notin DOMAIN st
    THEN [store |-> st, branch |-> "absent",
          ret |-> [success |-> FALSE, challengeId |-> response.challengeId]]
  ELSE LET ch == st[response.challengeId]
           ok == IsAnswerCorrect(response.answer, ch.correctAnswer)
       IN  IF clock > ch.expiresAt
             THEN [store |-> MapDelete(st, response.challengeId), branch |-> "expired",
                   ret |-> [success |-> FALSE, challengeId |-> response.challengeId]]
             ELSE [store |-> IF ok THEN MapDelete(st, response.challengeId) ELSE st,
                   branch |-> IF ok THEN "correct" ELSE "wrong",
                   ret |-> [success |-> ok, challengeId |-> response.challengeId]]

\* verify without the expiry check
VerifyNoExpiry(st, response, clock) ==
  IF response.challengeId \notin DOMAIN st
    THEN [store |-> st, branch |-> "absent",
          ret |-> [success |-> FALSE, challengeId |-> response.challengeId]]
  ELSE LET ch == st[response.challengeId]
           ok == IsAnswerCorrect(response.answer, ch.correctAnswer)
       IN  [store |-> MapDelete(st, response.challengeId),
            branch |-> IF ok THEN "correct" ELSE "wrong",
            ret |-> [success |-> ok, challengeId |-> response.challengeId]]

\* verify that tells the submitter why it failed
VerifyWithReason(st, response, clock) ==
  IF response.challengeId \notin DOMAIN st
    THEN [store |-> st, branch |-> "absent",
          ret |-> [success |-> FALSE, challengeId |-> response.challengeId, error |-> "not found"]]
  ELSE LET ch == st[response.challengeId]
           ok == IsAnswerCorrect(response.answer, ch.correctAnswer)
       IN  IF clock > ch.expiresAt
             THEN [store |-> MapDelete(st, response.challengeId), branch |-> "expired",
                   ret |-> [success |-> FALSE, challengeId |-> response.challengeId]]
             ELSE [store |-> MapDelete(st, response.challengeId),
                   branch |-> IF ok THEN "correct" ELSE "wrong",
                   ret |-> [success |-> ok, challengeId |-> response.challengeId]]

\* verify that also rejects as expired at the instant of expiresAt
VerifyExpiresInclusive(st, response, clock) ==
  IF response.challengeId \notin DOMAIN st
    THEN [store |-> st, branch |-> "absent",
          ret |-> [success |-> FALSE, challengeId |-> response.challengeId]]
  ELSE LET ch == st[response.challengeId]
           ok == IsAnswerCorrect(response.answer, ch.correctAnswer)
       IN  IF clock >= ch.expiresAt
             THEN [store |-> MapDelete(st, response.challengeId), branch |-> "expired",
                   ret |-> [success |-> FALSE, challengeId |-> response.challengeId]]
             ELSE [store |-> MapDelete(st, response.challengeId),
                   branch |-> IF ok THEN "correct" ELSE "wrong",
                   ret |-> [success |-> ok, challengeId |-> response.challengeId]]

\* verify(response) on the store st at time clock: the store it leaves, the branch it
\* returned from, and the value it returns
VerifyResult(st, response, clock) ==
  IF response.challengeId \notin DOMAIN st
    THEN [store |-> st, branch |-> "absent",
          ret |-> [success |-> FALSE, challengeId |-> response.challengeId]]
  ELSE LET ch == st[response.challengeId]
           ok == IsAnswerCorrect(response.answer, ch.correctAnswer)
       IN  IF clock > ch.expiresAt
             THEN [store |-> MapDelete(st, response.challengeId), branch |-> "expired",
                   ret |-> [success |-> FALSE, challengeId |-> response.challengeId]]
             ELSE [store |-> MapDelete(st, response.challengeId),
                   branch |-> IF ok THEN "correct" ELSE "wrong",
                   ret |-> [success |-> ok, challengeId |-> response.challengeId]]

\* pruneExpired that also removes the entries expiring at this very instant
RECURSIVE PruneLoopInclusive(_, _, _, _)
PruneLoopInclusive(ids, st, clock, pruned) ==
  IF ids = {} THEN [store |-> st, ret |-> pruned]
  ELSE LET id == CHOOSE i \in ids : TRUE IN
         IF clock >= st[id].expiresAt
           THEN PruneLoopInclusive(ids \ {id}, MapDelete(st, id), clock, pruned + 1)
           ELSE PruneLoopInclusive(ids \ {id}, st, clock, pruned)

\* the loop of pruneExpired over the entries still to visit
RECURSIVE PruneLoop(_, _, _, _)
PruneLoop(ids, st, clock, pruned) ==
  IF ids = {} THEN [store |-> st, ret |-> pruned]
  ELSE LET id == CHOOSE i \in ids : TRUE IN
         IF clock > st[id].expiresAt
           THEN PruneLoop(ids \ {id}, MapDelete(st, id), clock, pruned + 1)
           ELSE PruneLoop(ids \ {id}, st, clock, pruned)

NoCall == [op |-> "none"]

\* storeChallenge(challenge)
StoreChallenge(ch) ==
  /\ store' = MapSet(store, ch.id, ch)
  /\ verified' = verified \ {ch.id}
  /\ last' = [op |-> "storeChallenge", id |-> ch.id, pre |-> store, now |-> now]
  /\ UNCHANGED now

\* verify(response)
Verify(response) ==
  LET r == VerifyResult(store, response, now) IN
    /\ store' = r.store
    /\ verified' = verified \cup {response.challengeId}
    /\ last' = [op |-> "verify", id |-> response.challengeId, answer |-> response.answer,
                pre |-> store, now |-> now, again |-> response.challengeId \in verified,
                branch |-> r.branch, ret |-> r.ret]
    /\ UNCHANGED now

\* pruneExpired()
PruneExpired ==
  LET r == PruneLoop(DOMAIN store, store, now, 0) IN
    /\ store' = r.store
    /\ last' = [op |-> "pruneExpired", pre |-> store, now |-> now, ret |-> r.ret]
    /\ UNCHANGED <<now, verified>>

\* time passes
Tick ==
  /\ now < MaxTime
  /\ now' = now + 1
  /\ UNCHANGED <<store, last, verified>>

----------------------------------------------------------------------------
(* The calls drawn on the core store *)

Ids == {"c1", "c2"}

CellStr(n) == <<DigitChars[n + 1]>>

RECURSIVE Ascending(_)
Ascending(cells) ==
  IF cells = {} THEN <<>>
  ELSE LET m == CHOOSE c \in cells : \A d \in cells : c <= d
       IN  <<CellStr(m)>> \o Ascending(cells \ {m})

\* a select-all answer: the chosen cells in ascending order, as the grid generator
\* and the widget build it
CellsAnswer(cells) == Arr(Ascending(cells))

Challenge(id, correctAnswer, expiresAt) ==
  [id |-> id, correctAnswer |-> correctAnswer, expiresAt |-> expiresAt]

CoreCorrect == {Str(<<"B">>), CellsAnswer({1, 3, 7})}

CoreChallenges ==
  {Challenge(id, a, e) : id \in Ids, a \in CoreCorrect, e \in 0..MaxTime}

CoreAnswers ==
  {Str(<<"B">>), Str(<<" ", "b", " ">>), Str(<<"A">>),
   CellsAnswer({1, 3, 7}), CellsAnswer({1, 3}), CellsAnswer({1})}

CoreResponses == {[challengeId |-> id, answer |-> a] : id \in Ids, a \in CoreAnswers}

CoreInit ==
  /\ store = EmptyMap
  /\ now = 0
  /\ last = NoCall
  /\ verified = {}

NormIdle == nx = Str(<<>>) /\ ny = <<>> /\ nyy = <<>> /\ npc = "off"

WebIdle ==
  /\ db = EmptyMap
  /\ memoryBackedChallengeIds = {}
  /\ configured = FALSE
  /\ proc = EmptyMap
  /\ stores = EmptyMap
  /\ successes = EmptyMap

GenIdle ==
  /\ gpc = "off"
  /\ gen = ""
  /\ token = <<>>
  /\ distractors = {}
  /\ attempts = 0
  /\ challenge = [op |-> "none"]

\* process.env.FAL_KEY when it is not set
Unset == "<unset>"

NoShell == [created |-> FALSE]

NoResult == [kind |-> "none"]

FacesIdleLocals ==
  /\ fgen = ""
  /\ shell = NoShell
  /\ faceCount = 0
  /\ shuffledIndices = <<>>
  /\ si = 0
  /\ faceCellIndices = <<>>
  /\ cellFacePaths = <<>>
  /\ cell = 0
  /\ images = <<>>
  /\ requests = <<>>
  /\ failedCells = {}
  /\ character = ""
  /\ answerOptions = <<>>
  /\ result = NoResult

FacesIdle ==
  /\ fpc = "off"
  /\ env = [FAL_KEY |-> Unset, faceDir |-> [exists |-> FALSE, entries |-> {}]]
  /\ FacesIdleLocals

BuildIdleLocals ==
  /\ buildId = ""
  /\ invoked = <<>>
  /\ invokedBefore = <<>>
  /\ generated = NoResult
  /\ built = NoResult

BuildIdle == bpc = "off" /\ BuildIdleLocals

EvalIdleLocals ==
  /\ mi = 0
  /\ ci = 0
  /\ results = <<>>
  /\ modelResults = <<>>
  /\ inFlight = 0
  /\ evalLog = <<>>
  /\ thrown = {}

EvalIdle == epc = "off" /\ harness = "" /\ challenges = <<>> /\ EvalIdleLocals

\* JSON null, and an absent query parameter
Null == "null"

NoReply == [status |-> 0]

RouteIdleLocals ==
  /\ request = [generator |-> Null, source |-> Null]
  /\ rchallenge = NoResult
  /\ reply = NoReply

RouteIdle == rpc = "off" /\ RouteIdleLocals

\* useState<ChallengeData | null>(null): no challenge
NullChallenge == [challengeId |-> Null]

WidgetIdleLocals ==
  /\ wchallenge = NullChallenge
  /\ errorMsg = ""
  /\ inFlightRequests = {}
  /\ sent = 0
  /\ onVerifyCalls = <<>>
  /\ onErrorCalls = 0
  /\ successAnswers = 0
  /\ verifiedAt = 0

WidgetIdle == wstate = "off" /\ WidgetIdleLocals

NoRequest == [op |-> "none"]

PendIdleLocals ==
  /\ pnow = 0
  /\ pticks = 0
  /\ plast = NoRequest
  /\ handed = <<>>
  /\ returned = <<>>
  /\ consumedSince = {}

PendIdle == pendingEntries = "off" /\ PendIdleLocals

IssueIdle == issuedIds = <<>> /\ ipc = "off"

AltIdle == altPc = "off" /\ correctAlternative = <<>> /\ altBase = <<>> /\ altSeen = {} /\ alternatives = <<>>
ParseIdle == parseRaw = <<>> /\ parseOut = <<>> /\ parsePc = "off"
OuterIdle == FacesIdle /\ BuildIdle /\ EvalIdle /\ RouteIdle /\ WidgetIdle /\ PendIdle /\ IssueIdle /\ AltIdle /\ ParseIdle

Init == CoreInit /\ NormIdle /\ WebIdle /\ GenIdle /\ OuterIdle

Next ==
  \/ \E ch \in CoreChallenges : StoreChallenge(ch) /\ UNCHANGED <<normVars, webVars, genVars, outerVars>>
  \/ \E r \in CoreResponses : Verify(r) /\ UNCHANGED <<normVars, webVars, genVars, outerVars>>
  \/ PruneExpired /\ UNCHANGED <<normVars, webVars, genVars, outerVars>>
  \/ Tick /\ UNCHANGED <<normVars, webVars, genVars, outerVars>>

Spec == Init /\ [][Next]_vars

----------------------------------------------------------------------------
(* Scoring: one stored challenge, every correct answer against every submission *)

Cells == {1, 2, 3, 7, 9}

ScoreCorrect ==
  {CellsAnswer(c) : c \in SUBSET Cells \ {{}}}
    \cup {Str(<<"B">>), Str(<<" ", "b">>), Str(<<"1", ",", "3", ",", "7">>)}

ScoreAnswers ==
  {CellsAnswer(c) : c \in SUBSET Cells}
    \cup {Arr(<<CellStr(7), CellStr(3), CellStr(1)>>),
          Arr(<<<<" ", "3">>, <<"1", " ">>>>),
          Arr(<<CellStr(1), CellStr(1), CellStr(3)>>),
          Arr(<<<<"B">>>>),
          Str(<<"B">>), Str(<<" ", "b", " ">>), Str(<<"b">>), Str(<<"A">>), Str(<<>>),
          Str(<<"1", ",", "3">>), Str(<<"1", ",", "3", ",", "7">>),
          Str(<<"7", ",", "3", ",", "1">>)}

ScoreChallenges == {Challenge("c1", a, MaxTime) : a \in ScoreCorrect}

ScoreResponses == {[challengeId |-> "c1", answer |-> a] : a \in ScoreAnswers}

ScoreNext ==
  \/ \E ch \in ScoreChallenges : StoreChallenge(ch) /\ UNCHANGED <<normVars, webVars, genVars, outerVars>>
  \/ \E r \in ScoreResponses : Verify(r) /\ UNCHANGED <<normVars, webVars, genVars, outerVars>>

SpecScore == Init /\ [][ScoreNext]_vars

----------------------------------------------------------------------------
(* normalizeAnswer on its own: an input, its normal form, the normal form of that *)

NormChars == {"a", "A", "b", " ", ","}

StringsUpTo(n) == UNION {[1..k -> NormChars] : k \in 0..n}

NormInputs ==
  {Str(v) : v \in StringsUpTo(MaxLen)}
    \cup {Arr(v) : v \in UNION {[1..k -> StringsUpTo(MaxElemLen)] : k \in 0..MaxArr}}

NormInit ==
  /\ nx \in NormInputs
  /\ ny = <<>>
  /\ nyy = <<>>
  /\ npc = "input"

\* normalizeAnswer(x)
NormalizeOnce ==
  /\ npc = "input"
  /\ ny' = NormalizeAnswer(nx)
  /\ npc' = "once"
  /\ UNCHANGED <<nx, nyy>>

\* normalizeAnswer(normalizeAnswer(x)): the result of the first call is a string
NormalizeTwice ==
  /\ npc = "once"
  /\ nyy' = NormalizeAnswer(Str(ny))
  /\ npc' = "twice"
  /\ UNCHANGED <<nx, ny>>

NormNext ==
  \/ NormalizeOnce /\ UNCHANGED <<coreVars, webVars, genVars, outerVars>>
  \/ NormalizeTwice /\ UNCHANGED <<coreVars, webVars, genVars, outerVars>>

InitNorm == CoreInit /\ NormInit /\ WebIdle /\ GenIdle /\ OuterIdle

SpecNorm == InitNorm /\ [][NormNext]_vars

----------------------------------------------------------------------------
(* apps/web/src/lib/challenge-store.ts: the store of the web application. It keeps  *)
(* challenges in the captcha_challenges table when the database is configured and   *)
(* in the core's in-memory store otherwise, or when the upsert fails. A request to  *)
(* the database either takes effect and reports no error, or reports an error and   *)
(* has no effect; the database runs each request atomically (id is the primary key  *)
(* of the table, and DELETE ... RETURNING removes and returns the row in one step). *)

Storers == {"s1"}
Verifiers == {"v1", "v2"}

WebIds == {"c1"}

WebChallenges == {Challenge(id, Str(<<"B">>), e) : id \in WebIds, e \in {0, MaxTime}}

WebResponses ==
  {[challengeId |-> id, answer |-> a] : id \in WebIds, a \in {Str(<<"B">>), Str(<<"A">>)}}

NoResponse == [challengeId |-> "", answer |-> Str(<<>>)]
NoRet == [success |-> FALSE, challengeId |-> ""]

IdleStorer == [pc |-> "idle", challenge |-> {}]
IdleVerifier ==
  [pc |-> "idle", response |-> NoResponse, data |-> {}, error |-> FALSE,
   ret |-> NoRet, overlap |-> FALSE]

InFlight(q) == proc[q].pc # "idle"

Bump(counter, id) == [counter EXCEPT ![id] = @ + 1]

WebInit ==
  /\ db = EmptyMap
  /\ memoryBackedChallengeIds = {}
  /\ configured \in BOOLEAN
  /\ proc = [q \in Storers \cup Verifiers |-> IF q \in Storers THEN IdleStorer ELSE IdleVerifier]
  /\ stores = [i \in WebIds |-> 0]
  /\ successes = [i \in WebIds |-> 0]

\* storeChallenge, no database configured: the core store, at once (lines 62-65)
WebStoreInMemory(q, ch) ==
  /\ q \in Storers /\ proc[q].pc = "idle"
  /\ stores[ch.id] < MaxStores
  /\ ~configured
  /\ StoreChallenge(ch)
  /\ stores' = Bump(stores, ch.id)
  /\ UNCHANGED <<db, memoryBackedChallengeIds, configured, proc, successes>>

\* storeChallenge, database configured: the upsert is sent and awaited (lines 67-77)
WebStoreStart(q, ch) ==
  /\ q \in Storers /\ proc[q].pc = "idle"
  /\ stores[ch.id] < MaxStores
  /\ configured
  /\ proc' = [proc EXCEPT ![q] = [pc |-> "upsert", challenge |-> {ch}]]
  /\ UNCHANGED <<coreVars, db, memoryBackedChallengeIds, configured, stores, successes>>

\* the database runs the upsert; storeChallenge returns
WebUpsertOk(q) ==
  /\ q \in Storers /\ proc[q].pc = "upsert"
  /\ \E ch \in proc[q].challenge :
       /\ db' = MapSet(db, ch.id, [expires_at |-> ch.expiresAt, payload |-> ch])
       /\ stores' = Bump(stores, ch.id)
  /\ proc' = [proc EXCEPT ![q] = IdleStorer]
  /\ UNCHANGED <<coreVars, memoryBackedChallengeIds, configured, successes>>

\* the upsert fails; storeChallenge falls back to the core store (lines 79-91)
WebUpsertFailed(q) ==
  /\ q \in Storers /\ proc[q].pc = "upsert"
  /\ \E ch \in proc[q].challenge :
       /\ StoreChallenge(ch)
       /\ memoryBackedChallengeIds' = memoryBackedChallengeIds \cup {ch.id}
       /\ stores' = Bump(stores, ch.id)
  /\ proc' = [proc EXCEPT ![q] = IdleStorer]
  /\ UNCHANGED <<db, configured, successes>>

\* the other verification requests now overlap with q, and q with them
Overlapping(q, mine) ==
  [r \in DOMAIN proc |->
     IF r = q THEN mine
     ELSE IF r \in Verifiers /\ InFlight(r) THEN [proc[r] EXCEPT !.overlap = TRUE]
     ELSE proc[r]]

\* verifyChallenge answered by the core store at once: no database configured
\* (lines 95-97), or an id that fell back to memory (lines 99-102)
WebVerifyInMemory(q, response) ==
  /\ q \in Verifiers /\ proc[q].pc = "idle"
  /\ ~configured \/ response.challengeId \in memoryBackedChallengeIds
  /\ Verify(response)
  /\ memoryBackedChallengeIds' =
       IF configured THEN memoryBackedChallengeIds \ {response.challengeId}
                     ELSE memoryBackedChallengeIds
  /\ LET r == VerifyResult(store, response, now) IN
       /\ proc' = [proc EXCEPT ![q] =
                     [IdleVerifier EXCEPT !.response = response, !.ret = r.ret]]
       /\ successes' = IF r.ret.success /\ response.challengeId \in WebIds
                         THEN Bump(successes, response.challengeId) ELSE successes
  /\ UNCHANGED <<db, configured, stores>>

\* verifyChallenge, database configured: the delete is sent and awaited (lines 104-113)
WebVerifyStart(q, response) ==
  /\ q \in Verifiers /\ proc[q].pc = "idle"
  /\ configured /\ response.challengeId \notin memoryBackedChallengeIds
  /\ proc' = Overlapping(q, [IdleVerifier EXCEPT
                !.pc = "delete", !.response = response,
                !.overlap = \E r \in Verifiers \ {q} : InFlight(r)])
  /\ UNCHANGED <<coreVars, db, memoryBackedChallengeIds, configured, stores, successes>>

\* a delete that gives the row to every request that asks for it, and removes nothing
DeleteReturningKeeps(rows, id) ==
  [rows |-> rows, data |-> IF id \in DOMAIN rows THEN {rows[id].payload} ELSE {}]

\* delete().eq('id', id).select('payload').maybeSingle(): the row is removed and its
\* payload returned, or there is no such row and data is null
DeleteReturning(rows, id) ==
  [rows |-> MapDelete(rows, id),
   data |-> IF id \in DOMAIN rows THEN {rows[id].payload} ELSE {}]

\* the database runs the delete
WebDeleteDone(q) ==
  /\ q \in Verifiers /\ proc[q].pc = "delete"
  /\ LET r == DeleteReturning(db, proc[q].response.challengeId) IN
       /\ db' = r.rows
       /\ proc' = [proc EXCEPT ![q].pc = "resume", ![q].data = r.data]
  /\ UNCHANGED <<coreVars, memoryBackedChallengeIds, configured, stores, successes>>

\* the delete fails: error is set, or the client throws
WebDeleteFailed(q) ==
  /\ q \in Verifiers /\ proc[q].pc = "delete"
  /\ proc' = [proc EXCEPT ![q].pc = "resume", ![q].error = TRUE]
  /\ UNCHANGED <<coreVars, db, memoryBackedChallengeIds, configured, stores, successes>>

\* the value verifyChallenge returns once the delete has answered (lines 115-139)
WebVerdict(error, data, response, clock) ==
  IF error \/ data = {} THEN [success |-> FALSE, challengeId |-> response.challengeId]
  ELSE LET ch == CHOOSE c \in data : TRUE IN
         IF clock > ch.expiresAt
           THEN [success |-> FALSE, challengeId |-> response.challengeId]
           ELSE [success |-> NormalizeAnswer(ch.correctAnswer) = NormalizeAnswer(response.answer),
                 challengeId |-> response.challengeId]

\* verifyChallenge resumes after the await and returns
WebVerifyResume(q) ==
  /\ q \in Verifiers /\ proc[q].pc = "resume"
  /\ LET ret == WebVerdict(proc[q].error, proc[q].data, proc[q].response, now) IN
       /\ proc' = [proc EXCEPT ![q].pc = "idle", ![q].data = {}, ![q].error = FALSE,
                               ![q].ret = ret]
       /\ successes' = IF ret.success THEN Bump(successes, ret.challengeId) ELSE successes
  /\ UNCHANGED <<coreVars, db, memoryBackedChallengeIds, configured, stores>>

WebTick == Tick /\ UNCHANGED webVars

WebNext ==
  \/ \E q \in Storers, ch \in WebChallenges : WebStoreInMemory(q, ch) /\ UNCHANGED <<normVars, genVars, outerVars>>
  \/ \E q \in Storers, ch \in WebChallenges : WebStoreStart(q, ch) /\ UNCHANGED <<normVars, genVars, outerVars>>
  \/ \E q \in Storers : WebUpsertOk(q) /\ UNCHANGED <<normVars, genVars, outerVars>>
  \/ \E q \in Storers : WebUpsertFailed(q) /\ UNCHANGED <<normVars, genVars, outerVars>>
  \/ \E q \in Verifiers, r \in WebResponses : WebVerifyInMemory(q, r) /\ UNCHANGED <<normVars, genVars, outerVars>>
  \/ \E q \in Verifiers, r \in WebResponses : WebVerifyStart(q, r) /\ UNCHANGED <<normVars, genVars, outerVars>>
  \/ \E q \in Verifiers : WebDeleteDone(q) /\ UNCHANGED <<normVars, genVars, outerVars>>
  \/ \E q \in Verifiers : WebDeleteFailed(q) /\ UNCHANGED <<normVars, genVars, outerVars>>
  \/ \E q \in Verifiers : WebVerifyResume(q) /\ UNCHANGED <<normVars, genVars, outerVars>>
  \/ WebTick /\ UNCHANGED <<normVars, genVars, outerVars>>

InitWeb == CoreInit /\ NormIdle /\ WebInit /\ GenIdle /\ OuterIdle

SpecWeb == InitWeb /\ [][WebNext]_vars

----------------------------------------------------------------------------
(* packages/core/src/generators: the multiple-choice generators that build their    *)
(* distractors as permutations of the secret token. A token is 4 or 5 distinct      *)
(* letters; the model draws one token of 4 letters per generator, the behaviour     *)
(* being the same for every choice of distinct letters.                             *)

PermutationGenerators == {"grid-overlay", "emerging-image"}

\* generateRandomToken / generateToken: distinct letters of the generator's ALPHABET
GenTokens(g) ==
  IF g = "grid-overlay" THEN {<<"I", "O", "Q", "A">>} ELSE {<<"H", "J", "K", "L">>}

Swap(arr, i, j) == [arr EXCEPT ![i] = arr[j], ![j] = arr[i]]

\* the arrays shuffle(arr) can return: for i from the last index down to the second,
\* arr[i] is swapped with arr[j], j = randomInt(0, i + 1) any index up to i
RECURSIVE ShuffleFrom(_, _)
ShuffleFrom(arr, i) ==
  IF i < 2 THEN {arr}
  ELSE UNION {ShuffleFrom(Swap(arr, i, j), i - 1) : j \in 1..i}

Shuffle(arr) == ShuffleFrom(arr, Len(arr))

\* [...set]: the elements of a Set as an array
RECURSIVE Spread(_)
Spread(set) ==
  IF set = {} THEN <<>>
  ELSE LET x == CHOOSE y \in set : TRUE IN <<x>> \o Spread(set \ {x})

NoChallenge == [op |-> "none"]

GenInit ==
  /\ gpc = "idle"
  /\ gen = ""
  /\ token = <<>>
  /\ distractors = {}
  /\ attempts = 0
  /\ challenge = NoChallenge

\* generate() is called: the token is drawn and generatePermutationDistractors entered
GenerateStart(g) ==
  /\ gpc \in {"idle", "done"}
  /\ gen' = g
  /\ token' \in GenTokens(g)
  /\ distractors' = {}
  /\ attempts' = 0
  /\ gpc' = "loop"
  /\ challenge' = NoChallenge

\* one pass of the while loop of generatePermutationDistractors(token, 3); when the
\* loop condition fails afterwards, the helper returns [...distractors]
PermutationAttempt ==
  /\ gpc = "loop"
  /\ Cardinality(distractors) < 3 /\ attempts < MaxAttempts
  /\ \E d \in Shuffle(token) :
       LET out == IF d # token THEN distractors \cup {d} ELSE distractors
           more == Cardinality(out) < 3 /\ attempts + 1 < MaxAttempts
       IN  /\ distractors' = out
           /\ attempts' = IF more THEN attempts + 1 ELSE 0
           /\ gpc' = IF more THEN "loop" ELSE "built"
  /\ UNCHANGED <<gen, token, challenge>>

\* options = shuffle([token, ...distractors]); generate() returns the Challenge
GenerateReturn ==
  /\ gpc = "built"
  /\ \E options \in Shuffle(<<token>> \o Spread(distractors)) :
       challenge' = [op |-> "generate", generatorId |-> gen, options |-> options,
                     correctAnswer |-> token]
  /\ gpc' = "done"
  /\ distractors' = {}
  /\ UNCHANGED <<gen, token, attempts>>

GenNext ==
  \/ \E g \in PermutationGenerators : GenerateStart(g) /\ UNCHANGED <<coreVars, normVars, webVars, outerVars>>
  \/ PermutationAttempt /\ UNCHANGED <<coreVars, normVars, webVars, outerVars>>
  \/ GenerateReturn /\ UNCHANGED <<coreVars, normVars, webVars, outerVars>>

InitGen == CoreInit /\ NormIdle /\ WebIdle /\ GenInit /\ OuterIdle

SpecGen == InitGen /\ [][GenNext]_vars

----------------------------------------------------------------------------
(* packages/core/src/generators/illusion-faces.ts and illusion-diffusion.ts: the    *)
(* generators that synthesise their images through an external service. One call of *)
(* generate() is followed from the configuration check to the value it returns or   *)
(* the error it throws.                                                             *)

FalGenerators == {"illusion-faces", "illusion-diffusion"}

\* process.env.FAL_KEY: not set, set to the empty string, or set to a key
FalKeys == {Unset, "", "key"}

MissingKeyIgnored(falKey) == FALSE

\* !falKey
MissingKey(falKey) == falKey \in {Unset, ""}

\* randomInt(min, max): an integer in [min, max)
RandomInt(min, max) == min..(max - 1)

\* BaseGenerator.createChallengeShell: a fresh id and an expiry five minutes ahead
ChallengeShell(g) ==
  [created |-> TRUE, id |-> "uuid", generatorId |-> g, expiresAt |-> now + CHALLENGE_TTL_MS]

\* generate() rejects with an Error
Failure(message) == [kind |-> "error", message |-> message]

\* generate() resolves with a Challenge
Returned(ch) == [kind |-> "challenge", challenge |-> ch]

\* the generations/face-sources directory: absent, without image files, with two
FaceDirs ==
  {[exists |-> FALSE, entries |-> {}],
   [exists |-> TRUE, entries |-> {[name |-> "notes", ext |-> ".txt"]}],
   [exists |-> TRUE, entries |-> {[name |-> "f1", ext |-> ".jpg"],
                                  [name |-> "f2", ext |-> ".png"],
                                  [name |-> "notes", ext |-> ".txt"]}]}

SUPPORTED_EXTENSIONS == {".jpg", ".jpeg", ".png", ".webp"}

\* loadFaceSourcePaths: the image files of the directory, or the error it throws
LoadFaceSourcePaths(dir) ==
  LET imageFiles == {e \in dir.entries : e.ext \in SUPPORTED_EXTENSIONS}
  IN  IF ~dir.exists
      THEN [ok |-> FALSE, message |-> "face-sources directory not found", paths |-> <<>>]
      ELSE IF imageFiles = {}
      THEN [ok |-> FALSE, message |-> "no image files found", paths |-> <<>>]
      ELSE [ok |-> TRUE, message |-> "", paths |-> Spread({e.name : e \in imageFiles})]

\* Array.from({ length: GRID_CELLS }, (_, i) => i + 1)
AllCellIndices == [i \in 1..GRID_CELLS |-> i]

InsertNum(x, sorted) ==
  LET k == Cardinality({i \in 1..Len(sorted) : sorted[i] <= x})
  IN  SubSeq(sorted, 1, k) \o <<x>> \o SubSeq(sorted, k + 1, Len(sorted))

\* a.sort((a, b) => a - b)
RECURSIVE SortNum(_)
SortNum(a) == IF a = <<>> THEN <<>> ELSE InsertNum(Head(a), SortNum(Tail(a)))

PickFaceCellsUnsorted(shuffled, count) == SubSeq(shuffled, 1, count)

\* faceCellIndices = shuffledIndices.slice(0, faceCount).sort((a, b) => a - b)
PickFaceCells(shuffled, count) == SortNum(SubSeq(shuffled, 1, count))

\* cellFacePaths[faceCellIndices[i]] = shuffledPaths[i % shuffledPaths.length]
AssignFacePaths(cells, shuffledPaths) ==
  [c \in Range(cells) |->
     LET i == CHOOSE k \in 1..Len(cells) : cells[k] = c
     IN  shuffledPaths[((i - 1) % Len(shuffledPaths)) + 1]]

\* what one cell's synthesis can come to: an image, or a failure of the control
\* image's rendering, of the upload, of the subscription, of the result's shape
\* (extractImageUrl) or of the download (res.ok false)
CellOutcomes ==
  {"ok", "render-failed", "upload-failed", "subscribe-failed", "no-url", "download-failed"}

SynthesisFailsNever(out) == FALSE

\* the await of the cell's synthesis throws
SynthesisFails(out) == out # "ok"

\* the first letters of UPPERCASE_ALPHABET, from which the model draws the character
UPPERCASE_ALPHABET == <<"A", "B", "C", "D", "E">>

FacesInit ==
  /\ fpc = "idle"
  /\ env \in [FAL_KEY : FalKeys, faceDir : FaceDirs]
  /\ FacesIdleLocals

\* generate() is called: the key is checked first; illusion-diffusion then creates the
\* shell and draws the character and the options, illusion-faces awaits the face files
FalGenerate(g) ==
  /\ fpc = "idle"
  /\ fgen' = g
  /\ IF MissingKey(env.FAL_KEY)
     THEN /\ result' = Failure("FAL_KEY environment variable is required")
          /\ fpc' = "done"
          /\ UNCHANGED <<shell, character, answerOptions>>
     ELSE IF g = "illusion-faces"
     THEN /\ fpc' = "loading"
          /\ UNCHANGED <<result, shell, character, answerOptions>>
     ELSE /\ shell' = ChallengeShell(g)
          /\ \E c \in Range(UPPERCASE_ALPHABET) :
               LET Other(ch) == ch # c
               IN  \E remaining \in Shuffle(SelectSeq(UPPERCASE_ALPHABET, Other)) :
                     /\ character' = c
                     /\ answerOptions' \in Shuffle(<<c>> \o SubSeq(remaining, 1, 3))
          /\ fpc' = "synth"
          /\ UNCHANGED result
  /\ UNCHANGED <<env, faceCount, shuffledIndices, si, faceCellIndices, cellFacePaths, cell,
                 images, requests, failedCells>>

\* illusion-faces: loadFaceSourcePaths answers; on success the shell is created, the
\* face count drawn and shuffle(allCellIndices) entered
FacesLoadSources ==
  /\ fpc = "loading"
  /\ LET loaded == LoadFaceSourcePaths(env.faceDir)
     IN  IF ~loaded.ok
         THEN /\ result' = Failure(loaded.message)
              /\ fpc' = "done"
              /\ UNCHANGED <<shell, faceCount, shuffledIndices, si>>
         ELSE /\ shell' = ChallengeShell(fgen)
              /\ faceCount' \in RandomInt(2, 6)
              /\ shuffledIndices' = AllCellIndices
              /\ si' = GRID_CELLS
              /\ fpc' = "shuffle"
              /\ UNCHANGED result
  /\ UNCHANGED <<env, fgen, faceCellIndices, cellFacePaths, cell, images, requests,
                 failedCells, character, answerOptions>>

\* one pass of the loop of shuffle(allCellIndices): arr[i] is swapped with arr[j],
\* j = randomInt(0, i + 1)
FacesShuffleStep ==
  /\ fpc = "shuffle"
  /\ si >= 2
  /\ \E j \in RandomInt(1, si + 1) : shuffledIndices' = Swap(shuffledIndices, si, j)
  /\ si' = si - 1
  /\ UNCHANGED <<fpc, env, fgen, shell, faceCount, faceCellIndices, cellFacePaths, cell,
                 images, requests, failedCells, character, answerOptions, result>>

\* the shuffle has returned: the face cells are sliced off and sorted, the face files
\* assigned, and the loop over the cells entered
FacesPickCells ==
  /\ fpc = "shuffle"
  /\ si < 2
  /\ faceCellIndices' = PickFaceCells(shuffledIndices, faceCount)
  /\ \E shuffledPaths \in Shuffle(LoadFaceSourcePaths(env.faceDir).paths) :
       cellFacePaths' = AssignFacePaths(faceCellIndices', shuffledPaths)
  /\ cell' = 1
  /\ images' = <<>>
  /\ fpc' = "cells"
  /\ shuffledIndices' = <<>>
  /\ si' = 0
  /\ UNCHANGED <<env, fgen, shell, faceCount, requests, failedCells, character,
                 answerOptions, result>>

\* the Challenge illusion-faces returns
FacesChallenge(imgs) ==
  [id |-> shell.id, generatorId |-> shell.generatorId, expiresAt |-> shell.expiresAt,
   images |-> imgs,
   question |-> "Select all images with hidden faces.",
   correctAnswer |-> Arr([i \in 1..Len(faceCellIndices) |-> CellStr(faceCellIndices[i])]),
   metadata |-> [format |-> "select-all", cellCount |-> GRID_CELLS,
                 faceCount |-> faceCount, faceCellIndices |-> faceCellIndices]]

\* one pass of the loop over the cells: the control image is rendered and the cell
\* synthesised; after the ninth cell generate() returns the Challenge
FacesCell ==
  /\ fpc = "cells"
  /\ \E out \in CellOutcomes :
       LET isFaceCell == cell \in Range(faceCellIndices)
           image == IF isFaceCell THEN [kind |-> "face", source |-> cellFacePaths[cell]]
                    ELSE [kind |-> "blank", source |-> ""]
       IN  /\ requests' = IF out = "render-failed" THEN requests ELSE Append(requests, cell)
           /\ failedCells' = IF out = "ok" THEN failedCells ELSE failedCells \cup {cell}
           /\ IF SynthesisFails(out)
              THEN /\ result' = Failure(out)
                   /\ fpc' = "done"
                   /\ UNCHANGED <<images, cell>>
              ELSE /\ images' = Append(images, image)
                   /\ cell' = cell + 1
                   /\ IF cell < GRID_CELLS
                      THEN UNCHANGED <<fpc, result>>
                      ELSE /\ result' = Returned(FacesChallenge(images'))
                           /\ fpc' = "done"
  /\ UNCHANGED <<env, fgen, shell, faceCount, shuffledIndices, si, faceCellIndices,
                 cellFacePaths, character, answerOptions>>

\* illusion-diffusion: the one image is synthesised and generate() returns
DiffusionSynthesis ==
  /\ fpc = "synth"
  /\ \E out \in CellOutcomes \ {"render-failed"} :
       /\ requests' = Append(requests, 1)
       /\ failedCells' = IF out = "ok" THEN failedCells ELSE failedCells \cup {1}
       /\ IF SynthesisFails(out)
          THEN /\ result' = Failure(out)
               /\ UNCHANGED images
          ELSE /\ images' = <<[kind |-> "letter", source |-> character]>>
               /\ result' = Returned(
                    [id |-> shell.id, generatorId |-> shell.generatorId,
                     expiresAt |-> shell.expiresAt, images |-> images',
                     question |-> "Which capital letter is hidden in this image?",
                     options |-> answerOptions, correctAnswer |-> Str(<<character>>),
                     metadata |-> [character |-> character]])
  /\ fpc' = "done"
  /\ UNCHANGED <<env, fgen, shell, faceCount, shuffledIndices, si, faceCellIndices,
                 cellFacePaths, cell, character, answerOptions>>

FacesNext ==
  \/ \E g \in FalGenerators : FalGenerate(g) /\ UNCHANGED <<coreVars, normVars, webVars, genVars, buildVars, evalVars, routeVars, widgetVars, pendVars, issueVars, altVars, parseVars>>
  \/ FacesLoadSources /\ UNCHANGED <<coreVars, normVars, webVars, genVars, buildVars, evalVars, routeVars, widgetVars, pendVars, issueVars, altVars, parseVars>>
  \/ FacesShuffleStep /\ UNCHANGED <<coreVars, normVars, webVars, genVars, buildVars, evalVars, routeVars, widgetVars, pendVars, issueVars, altVars, parseVars>>
  \/ FacesPickCells /\ UNCHANGED <<coreVars, normVars, webVars, genVars, buildVars, evalVars, routeVars, widgetVars, pendVars, issueVars, altVars, parseVars>>
  \/ FacesCell /\ UNCHANGED <<coreVars, normVars, webVars, genVars, buildVars, evalVars, routeVars, widgetVars, pendVars, issueVars, altVars, parseVars>>
  \/ DiffusionSynthesis /\ UNCHANGED <<coreVars, normVars, webVars, genVars, buildVars, evalVars, routeVars, widgetVars, pendVars, issueVars, altVars, parseVars>>

InitFaces == CoreInit /\ NormIdle /\ WebIdle /\ GenIdle /\ BuildIdle /\ EvalIdle /\ RouteIdle /\ WidgetIdle /\ PendIdle /\ IssueIdle /\ AltIdle /\ ParseIdle /\ FacesInit

SpecFaces == InitFaces /\ [][FacesNext]_vars

----------------------------------------------------------------------------
(* packages/core/src/generators/index.ts and challenge/builder.ts: the registry of  *)
(* generators and buildChallenge. A generator is known by its config.id.            *)

Generator(id) == [config |-> [id |-> id]]

\* the registry: const generators = [new GridOverlayGenerator(), ...]
generators ==
  <<Generator("grid-overlay"), Generator("proximity-text"), Generator("partial-occlusion"),
    Generator("illusory-contours"), Generator("abutting-grating"),
    Generator("emerging-image")>>

\* new Map(generators.map((g) => [g.config.id, g]))
generatorMap ==
  [id \in {generators[i].config.id : i \in 1..Len(generators)} |->
     LET i == CHOOSE k \in 1..Len(generators) :
                /\ generators[k].config.id = id
                /\ \A l \in (k + 1)..Len(generators) : generators[l].config.id # id
     IN  generators[i]]

\* what Map.get returns for a key the Map does not hold
Undefined == [undefined |-> TRUE]

GetGeneratorOrFirst(id) ==
  IF id \in DOMAIN generatorMap THEN generatorMap[id] ELSE generators[1]

GetGenerator(id) == IF id \in DOMAIN generatorMap THEN generatorMap[id] ELSE Undefined

GetAllGenerators == generators

GetGeneratorIds == [i \in 1..Len(generators) |-> generators[i].config.id]

\* the ids of the "Generators shipped" table of the README
ShippedIds ==
  {"illusion-faces", "grid-overlay", "proximity-text", "partial-occlusion",
   "illusory-contours", "abutting-grating", "emerging-image"}

\* the ids buildChallenge is called with
BuildIds == ShippedIds \cup {"illusion-diffusion", "no-such-generator"}

\* `Unknown generator: ${generatorId}. Available: ${ids.join(', ')}`
UnknownGenerator(generatorId) ==
  [text |-> "Unknown generator", requested |-> generatorId,
   available |-> [i \in 1..Len(GetAllGenerators) |-> GetAllGenerators[i].config.id]]

\* what generate() of a registered generator comes to: a Challenge or a rejection
GenerateOutcomes(g) ==
  {Returned([generatorId |-> g, id |-> u]) : u \in {"uuid-1", "uuid-2"}}
    \cup {Failure([text |-> "generate failed"])}

BuildInit == bpc = "idle" /\ BuildIdleLocals

\* buildChallenge(generatorId) up to the call of generator.generate()
BuildChallenge(generatorId) ==
  /\ bpc \in {"idle", "done"}
  /\ Len(invoked) < MaxBuilds
  /\ buildId' = generatorId
  /\ invokedBefore' = invoked
  /\ generated' = NoResult
  /\ LET generator == GetGenerator(generatorId)
     IN  IF generator = Undefined
         THEN /\ built' = Failure(UnknownGenerator(generatorId))
              /\ bpc' = "done"
              /\ UNCHANGED invoked
         ELSE /\ invoked' = Append(invoked, generator.config.id)
              /\ built' = NoResult
              /\ bpc' = "generating"

\* generate() settles and buildChallenge settles with it
BuildSettles ==
  /\ bpc = "generating"
  /\ \E outcome \in GenerateOutcomes(invoked[Len(invoked)]) :
       /\ generated' = outcome
       /\ built' = outcome
  /\ bpc' = "done"
  /\ UNCHANGED <<buildId, invoked, invokedBefore>>

BuildNext ==
  \/ \E id \in BuildIds : BuildChallenge(id) /\ UNCHANGED <<coreVars, normVars, webVars, genVars, faceVars, evalVars, routeVars, widgetVars, pendVars, issueVars, altVars, parseVars>>
  \/ BuildSettles /\ UNCHANGED <<coreVars, normVars, webVars, genVars, faceVars, evalVars, routeVars, widgetVars, pendVars, issueVars, altVars, parseVars>>

InitBuild == CoreInit /\ NormIdle /\ WebIdle /\ GenIdle /\ FacesIdle /\ EvalIdle /\ RouteIdle /\ WidgetIdle /\ PendIdle /\ IssueIdle /\ AltIdle /\ ParseIdle /\ BuildInit

SpecBuild == InitBuild /\ [][BuildNext]_vars

----------------------------------------------------------------------------
(* packages/eval/src: the eval harness. runEvalOnChallenges puts every challenge to *)
(* every model, one call at a time, and scores the parsed answers. The repository   *)
(* holds the runner twice: runner.ts scores by exact match, the other copy by       *)
(* isCorrectWithTolerance; the model follows either.                                *)

Harnesses == {"exact", "tolerance"}

\* a character of \w among the characters of the model
IsWordChar(c) == IsDigit(c) \/ c \in {"A", "B", "C", "D", "a", "b"}

\* String.prototype.includes
Includes(s, sub) ==
  \E k \in 0..(Len(s) - Len(sub)) : SubSeq(s, k + 1, k + Len(sub)) = sub

\* the index in A-D of the letter that /^([A-D])\b/ matches, or -1
LetterMatch(cleaned) ==
  IF /\ cleaned # <<>>
     /\ cleaned[1] \in {"A", "B", "C", "D"}
     /\ (Len(cleaned) = 1 \/ ~IsWordChar(cleaned[2]))
  THEN CodeUnit(cleaned[1]) - 65
  ELSE -1

\* cleaned.match(/[1-9]/g), as numbers
RECURSIVE DigitsOf(_)
DigitsOf(s) ==
  IF s = <<>> THEN <<>>
  ELSE IF IsDigit(Head(s)) /\ Head(s) # "0" THEN <<DigitVal(Head(s))>> \o DigitsOf(Tail(s))
  ELSE DigitsOf(Tail(s))

\* Array.from(new Set(a)): the first occurrences, in order
RECURSIVE Unique(_)
Unique(a) ==
  IF a = <<>> THEN <<>>
  ELSE LET front == Unique(SubSeq(a, 1, Len(a) - 1))
       IN  IF a[Len(a)] \in Range(front) THEN front ELSE Append(front, a[Len(a)])

\* parseAnswer without the sort of the digits
ParseAnswerUnsorted(raw, ch) ==
  LET cleaned == ToUpperCase(Trim(raw))
      digits == DigitsOf(cleaned)
      unique == Unique(digits)
  IN  IF "options" \in DOMAIN ch THEN cleaned
      ELSE IF digits # <<>> THEN Join([k \in 1..Len(unique) |-> CellStr(unique[k])])
      ELSE cleaned

\* prompts.ts parseAnswer(raw, options)
ParseAnswer(raw, ch) ==
  LET cleaned == ToUpperCase(Trim(raw))
  IN  IF "options" \in DOMAIN ch
      THEN LET options == ch.options
               idx == LetterMatch(cleaned)
               hits == {k \in 1..Len(options) : Includes(cleaned, ToUpperCase(options[k]))}
           IN  IF idx >= 0 /\ idx < Len(options) THEN options[idx + 1]
               ELSE IF hits # {} THEN options[CHOOSE k \in hits : \A l \in hits : k <= l]
               ELSE cleaned
      ELSE LET digits == DigitsOf(cleaned)
               unique == SortNum(Unique(digits))
           IN  IF digits # <<>> THEN Join([k \in 1..Len(unique) |-> CellStr(unique[k])])
               ELSE cleaned

\* Array.isArray(correctAnswer) ? correctAnswer.join(',') : correctAnswer
CorrectStr(correctAnswer) ==
  IF correctAnswer.arr THEN Join(correctAnswer.v) ELSE correctAnswer.v

\* runner.ts: correct = parsed.toUpperCase() === correctStr.toUpperCase()
ExactMatch(parsed, correctAnswer) ==
  ToUpperCase(parsed) = ToUpperCase(CorrectStr(correctAnswer))

\* .split(',').map((s) => s.trim()).filter(Boolean).map(Number).filter((n) => !isNaN(n)),
\* as a Set
TolerantNums(s) ==
  LET parts == Split(s)
      kept == {k \in 1..Len(parts) : Trim(parts[k]) # <<>> /\ ~Number(Trim(parts[k])).nan}
  IN  {Number(Trim(parts[k])).val : k \in kept}

\* isCorrectWithTolerance(parsed, correctAnswer)
IsCorrectWithTolerance(parsed, correctAnswer) ==
  LET correctSet == TolerantNums(CorrectStr(correctAnswer))
      parsedSet == TolerantNums(parsed)
      errors == Cardinality(correctSet \ parsedSet) + Cardinality(parsedSet \ correctSet)
  IN  IF ExactMatch(parsed, correctAnswer) THEN TRUE
      ELSE IF correctSet = {} \/ parsedSet = {} THEN FALSE
      ELSE errors <= 1

\* the score of the harness followed
Scored(h, parsed, correctAnswer) ==
  IF h = "exact" THEN ExactMatch(parsed, correctAnswer)
  ELSE IsCorrectWithTolerance(parsed, correctAnswer)

\* the challenges evaluated: a select-all challenge of illusion-faces and a
\* multiple-choice challenge of illusion-diffusion
EvalChallenges ==
  <<[id |-> "e1", correctAnswer |-> CellsAnswer({1, 4, 7})],
    [id |-> "e2", options |-> <<<<"D">>, <<"B">>, <<"A">>, <<"C">>>>,
     correctAnswer |-> Str(<<"B">>)]>>

EvalInputs == {<<>>, EvalChallenges}

\* options.models
EvalModels == <<"model-1", "model-2">>

\* what a model answers: "1,4", "4,7,1", "b", "BAD" and the empty string
RawAnswers ==
  {<<"1", ",", "4">>, <<"4", ",", "7", ",", "1">>, <<"b">>, <<"B", "A", "D">>, <<>>}

Latencies == {0, 2}

\* how evaluateWithModel settles: an answer with its latency, or an error
AgentOutcomes ==
  {[threw |-> FALSE, answer |-> a, latencyMs |-> l] : a \in RawAnswers, l \in Latencies}
    \cup {[threw |-> TRUE, answer |-> <<>>, latencyMs |-> 0]}

ErrorMessage == <<"d", "o", "w", "n">>

\* the record of the try branch
AnswerRecord(h, ch, outcome) ==
  LET parsed == ParseAnswer(outcome.answer, ch)
  IN  [challengeId |-> ch.id, modelAnswer |-> parsed, correctAnswer |-> ch.correctAnswer,
       correct |-> Scored(h, parsed, ch.correctAnswer), latencyMs |-> outcome.latencyMs,
       rawResponse |-> outcome.answer]

\* the record of the catch branch
ErrorRecord(ch) ==
  [challengeId |-> ch.id,
   modelAnswer |-> <<"E", "R", "R", "O", "R", ":", " ">> \o ErrorMessage,
   correctAnswer |-> ch.correctAnswer, correct |-> FALSE, latencyMs |-> 0,
   rawResponse |-> ErrorMessage]

CatchDrops(list, record) == list

\* results.push(...) of the catch branch
CatchRecord(list, record) == Append(list, record)

AwaitedNever(pending) == TRUE

\* await: the loop goes on to its next call once the call it awaits has settled
Awaited(pending) == pending = 0

EvalInit ==
  /\ epc = "idle"
  /\ harness \in Harnesses
  /\ challenges \in EvalInputs
  /\ EvalIdleLocals

\* runEvalOnChallenges is called and enters its loops
RunEvalOnChallenges ==
  /\ epc = "idle"
  /\ IF Len(challenges) = 0
     THEN /\ epc' = "failed"
          /\ UNCHANGED <<mi, ci>>
     ELSE /\ epc' = "loop"
          /\ mi' = 1
          /\ ci' = 1
  /\ UNCHANGED <<harness, challenges, results, modelResults, inFlight, evalLog, thrown>>

\* evaluateWithModel(model.id, images, prompt) is called for challenges[i]
EvalCall ==
  /\ epc = "loop"
  /\ Awaited(inFlight)
  /\ inFlight' = inFlight + 1
  /\ evalLog' = Append(evalLog, [ev |-> "start", model |-> mi, i |-> ci])
  /\ UNCHANGED <<epc, harness, challenges, mi, ci, results, modelResults, thrown>>

\* the call settles: the record is pushed; after the last challenge the model's
\* results are pushed, and after the last model the run returns
EvalSettle ==
  /\ epc = "loop"
  /\ inFlight > 0
  /\ inFlight' = inFlight - 1
  /\ evalLog' = Append(evalLog, [ev |-> "end", model |-> mi, i |-> ci])
  /\ \E outcome \in AgentOutcomes :
       LET ch == challenges[ci]
           pushed == IF outcome.threw THEN CatchRecord(results, ErrorRecord(ch))
                     ELSE Append(results, AnswerRecord(harness, ch, outcome))
           correctCount == Cardinality({k \in 1..Len(pushed) : pushed[k].correct})
       IN  /\ thrown' = IF outcome.threw THEN thrown \cup {<<mi, ci>>} ELSE thrown
           /\ IF ci < Len(challenges)
              THEN /\ results' = pushed
                   /\ ci' = ci + 1
                   /\ UNCHANGED <<mi, modelResults, epc>>
              ELSE /\ modelResults' =
                        Append(modelResults,
                               [modelId |-> EvalModels[mi], challenges |-> pushed,
                                correctCount |-> correctCount,
                                totalChallenges |-> Len(challenges)])
                   /\ results' = <<>>
                   /\ ci' = 1
                   /\ mi' = mi + 1
                   /\ epc' = IF mi < Len(EvalModels) THEN "loop" ELSE "done"
  /\ UNCHANGED <<harness, challenges>>

EvalNext ==
  \/ RunEvalOnChallenges /\ UNCHANGED <<coreVars, normVars, webVars, genVars, faceVars, buildVars, routeVars, widgetVars, pendVars, issueVars, altVars, parseVars>>
  \/ EvalCall /\ UNCHANGED <<coreVars, normVars, webVars, genVars, faceVars, buildVars, routeVars, widgetVars, pendVars, issueVars, altVars, parseVars>>
  \/ EvalSettle /\ UNCHANGED <<coreVars, normVars, webVars, genVars, faceVars, buildVars, routeVars, widgetVars, pendVars, issueVars, altVars, parseVars>>

InitEval == CoreInit /\ NormIdle /\ WebIdle /\ GenIdle /\ FacesIdle /\ BuildIdle /\ RouteIdle /\ WidgetIdle /\ PendIdle /\ IssueIdle /\ AltIdle /\ ParseIdle /\ EvalInit

SpecEval == InitEval /\ [][EvalNext]_vars

----------------------------------------------------------------------------
(* apps/web/src/app/api/challenge/route.ts: GET builds a challenge, stores it with  *)
(* storeChallenge of the web store and answers with the serialized challenge.       *)

\* the alphabet of base64
Base64Chars ==
  <<"A", "B", "C", "D", "E", "F", "G", "H", "I", "J", "K", "L", "M", "N", "O", "P",
    "Q", "R", "S", "T", "U", "V", "W", "X", "Y", "Z", "a", "b", "c", "d", "e", "f",
    "g", "h", "i", "j", "k", "l", "m", "n", "o", "p", "q", "r", "s", "t", "u", "v",
    "w", "x", "y", "z", "0", "1", "2", "3", "4", "5", "6", "7", "8", "9", "+", "/">>

\* Buffer.toString('base64'): three bytes become four characters, the last group is
\* padded with '='
RECURSIVE Base64(_)
Base64(bytes) ==
  LET C(n) == Base64Chars[n + 1]
      b1 == bytes[1]
      b2 == IF Len(bytes) >= 2 THEN bytes[2] ELSE 0
      b3 == IF Len(bytes) >= 3 THEN bytes[3] ELSE 0
  IN  IF bytes = <<>> THEN <<>>
      ELSE IF Len(bytes) = 1
      THEN <<C(b1 \div 4), C((b1 % 4) * 16), "=", "=">>
      ELSE IF Len(bytes) = 2
      THEN <<C(b1 \div 4), C((b1 % 4) * 16 + b2 \div 16), C((b2 % 16) * 4), "=">>
      ELSE <<C(b1 \div 4), C((b1 % 4) * 16 + b2 \div 16), C((b2 % 16) * 4 + b3 \div 64),
             C(b3 % 64)>> \o Base64(SubSeq(bytes, 4, Len(bytes)))

SerializeChallengeWithAnswer(ch) ==
  [challengeId |-> ch.id, generatorId |-> ch.generatorId, question |-> ch.question,
   correctAnswer |-> ch.correctAnswer]

\* route.ts serializeChallenge; JSON leaves out options when the challenge has none
SerializeChallenge(ch) ==
  LET encoded == [k \in 1..Len(ch.images) |->
                   [data |-> Base64(ch.images[k].data), mimeType |-> ch.images[k].mimeType,
                    width |-> ch.images[k].width, height |-> ch.images[k].height]]
      format == IF "format" \in DOMAIN ch.metadata THEN ch.metadata.format
                ELSE "multiple-choice"
  IN  IF "options" \in DOMAIN ch
      THEN [challengeId |-> ch.id, generatorId |-> ch.generatorId, images |-> encoded,
            question |-> ch.question, options |-> ch.options, format |-> format]
      ELSE [challengeId |-> ch.id, generatorId |-> ch.generatorId, images |-> encoded,
            question |-> ch.question, format |-> format]

Png(bytes) == [data |-> bytes, mimeType |-> "image/png", width |-> 512, height |-> 512]

\* the challenges the builders return to the route: a multiple-choice challenge of
\* grid-overlay and a select-all challenge read from the generations
RouteChallenges ==
  {[id |-> "c1", generatorId |-> "grid-overlay", images |-> <<Png(<<137, 80, 78, 71>>)>>,
    question |-> "Which sequence of characters do you see?",
    options |-> <<<<"A", "B">>, <<"B", "A">>>>, correctAnswer |-> Str(<<"B", "A">>),
    metadata |-> [token |-> <<"B", "A">>, distractors |-> <<<<"A", "B">>>>],
    expiresAt |-> MaxTime],
   [id |-> "c1", generatorId |-> "illusion-faces",
    images |-> <<Png(<<137, 80>>), Png(<<71>>)>>,
    question |-> "Select all images with hidden faces.",
    correctAnswer |-> CellsAnswer({1, 4, 7}),
    metadata |-> [format |-> "select-all", faceCellIndices |-> <<1, 4, 7>>],
    expiresAt |-> MaxTime]}

\* the query of GET /api/challenge
RouteRequests ==
  [generator : {Null, "", "grid-overlay", "illusion-faces"}, source : {Null, "generations"}]

\* how the builder the route calls settles: buildGenerationChallenge, buildChallenge
\* or buildRandomChallenge
RouteBuildOutcomes(req) ==
  LET failed == {Failure([text |-> "build failed"])}
      live == {ch \in RouteChallenges : GetGenerator(ch.generatorId) # Undefined}
  IN  IF req.source = "generations"
      THEN {Returned(ch) : ch \in RouteChallenges} \cup failed
      ELSE IF req.generator \notin {Null, ""}
      THEN IF GetGenerator(req.generator) = Undefined
           THEN {Failure(UnknownGenerator(req.generator))}
           ELSE {Returned(ch) : ch \in {c \in live : c.generatorId = req.generator}}
                  \cup failed
      ELSE {Returned(ch) : ch \in live} \cup failed

\* the answer of the catch branch
ErrorReply(message) ==
  [status |-> 400,
   body |-> [error |-> message, availableGenerators |-> GetGeneratorIds,
             availableSources |-> <<"live", "generations">>]]

RouteInit == rpc = "idle" /\ RouteIdleLocals

\* a GET arrives and the builder is called
RouteGet(req) ==
  /\ rpc \in {"idle", "done"}
  /\ request' = req
  /\ rchallenge' = NoResult
  /\ reply' = NoReply
  /\ rpc' = "build"
  /\ UNCHANGED <<coreVars, webVars>>

\* the builder settles: an error is answered with status 400, a challenge goes on to
\* storeChallenge
RouteBuilt ==
  /\ rpc = "build"
  /\ \E outcome \in RouteBuildOutcomes(request) :
       IF outcome.kind = "error"
       THEN /\ reply' = ErrorReply(outcome.message)
            /\ rpc' = "done"
            /\ UNCHANGED rchallenge
       ELSE /\ rchallenge' = outcome.challenge
            /\ rpc' = "store"
            /\ UNCHANGED reply
  /\ UNCHANGED <<request, coreVars, webVars>>

\* await storeChallenge(challenge), answered by the in-memory store
RouteStoreInMemory ==
  /\ rpc = "store"
  /\ WebStoreInMemory("s1", rchallenge)
  /\ rpc' = "stored"
  /\ UNCHANGED <<request, rchallenge, reply>>

\* await storeChallenge(challenge): the upsert is sent
RouteStoreStart ==
  /\ rpc = "store"
  /\ WebStoreStart("s1", rchallenge)
  /\ rpc' = "upsert"
  /\ UNCHANGED <<request, rchallenge, reply>>

\* the upsert took effect, or failed and the in-memory store took the challenge
RouteStoreDone ==
  /\ rpc = "upsert"
  /\ WebUpsertOk("s1") \/ WebUpsertFailed("s1")
  /\ rpc' = "stored"
  /\ UNCHANGED <<request, rchallenge, reply>>

\* return NextResponse.json(serializeChallenge(challenge))
RouteRespond ==
  /\ rpc = "stored"
  /\ reply' = [status |-> 200, body |-> SerializeChallenge(rchallenge)]
  /\ rpc' = "done"
  /\ UNCHANGED <<request, rchallenge, coreVars, webVars>>

RouteNext ==
  \/ \E req \in RouteRequests : RouteGet(req) /\ UNCHANGED <<normVars, genVars, faceVars, buildVars, evalVars, widgetVars, pendVars, issueVars, altVars, parseVars>>
  \/ RouteBuilt /\ UNCHANGED <<normVars, genVars, faceVars, buildVars, evalVars, widgetVars, pendVars, issueVars, altVars, parseVars>>
  \/ RouteStoreInMemory /\ UNCHANGED <<normVars, genVars, faceVars, buildVars, evalVars, widgetVars, pendVars, issueVars, altVars, parseVars>>
  \/ RouteStoreStart /\ UNCHANGED <<normVars, genVars, faceVars, buildVars, evalVars, widgetVars, pendVars, issueVars, altVars, parseVars>>
  \/ RouteStoreDone /\ UNCHANGED <<normVars, genVars, faceVars, buildVars, evalVars, widgetVars, pendVars, issueVars, altVars, parseVars>>
  \/ RouteRespond /\ UNCHANGED <<normVars, genVars, faceVars, buildVars, evalVars, widgetVars, pendVars, issueVars, altVars, parseVars>>

InitRoute == CoreInit /\ NormIdle /\ WebInit /\ GenIdle /\ FacesIdle /\ BuildIdle /\ EvalIdle /\ WidgetIdle /\ PendIdle /\ IssueIdle /\ AltIdle /\ ParseIdle /\ RouteInit

SpecRoute == InitRoute /\ [][RouteNext]_vars

----------------------------------------------------------------------------
(* packages/react/src/LatchaWidget.tsx: the widget. Its handlers are reached through *)
(* what it renders: the idle card calls fetchChallenge, the grid (CaptchaGrid) calls *)
(* handleSubmit and handleSkip unless it is disabled, the error card calls           *)
(* fetchChallenge and handleReset. A request sent stays in flight until its answer   *)
(* arrives, and the continuation of the handler that sent it then runs whatever the  *)
(* state of the widget is.                                                           *)

\* the ids of the challenges the endpoint issues
WidgetIds == {"w1", "w2"}

\* how GET {apiBase}/challenge settles: a challenge, an error status, no answer
ChallengeAnswers ==
  {[ok |-> TRUE, failed |-> FALSE, challengeId |-> id] : id \in WidgetIds}
    \cup {[ok |-> FALSE, failed |-> FALSE, challengeId |-> ""],
          [ok |-> FALSE, failed |-> TRUE, challengeId |-> ""]}

\* how POST {apiBase}/verify settles for a challenge: success with the token of the
\* shipped endpoint, success without a token, a refusal, no (readable) answer
VerifyAnswers(id) ==
  {[failed |-> FALSE, success |-> TRUE, token |-> id],
   [failed |-> FALSE, success |-> TRUE],
   [failed |-> FALSE, success |-> FALSE],
   [failed |-> TRUE, success |-> FALSE]}

\* the callback of the host page returns, or throws inside the try of handleSubmit
OnVerifyOutcomes == {"returns", "throws"}

GridNeverDisabled(state) == FALSE

\* CaptchaGrid: disabled={state === "verifying"}
GridDisabled(state) == state = "verifying"

\* the grid is rendered: (state === "challenge" || state === "verifying") && challenge
GridShown == wstate \in {"challenge", "verifying"} /\ wchallenge # NullChallenge

WidgetInit == wstate = "idle" /\ WidgetIdleLocals

\* fetchChallenge up to its fetch
FetchChallenge ==
  /\ sent < MaxRequests
  /\ wstate' = "loading"
  /\ errorMsg' = ""
  /\ sent' = sent + 1
  /\ inFlightRequests' = inFlightRequests \cup {[kind |-> "challenge", challengeId |-> "", n |-> sent' ]}
  /\ UNCHANGED <<onVerifyCalls, onErrorCalls, successAnswers, verifiedAt>>

\* the idle card is clicked
WidgetClick ==
  /\ wstate = "idle"
  /\ FetchChallenge
  /\ UNCHANGED wchallenge

\* "Try again" on the error card
WidgetTryAgain ==
  /\ wstate = "error"
  /\ FetchChallenge
  /\ UNCHANGED wchallenge

\* handleSkip, from the grid
WidgetSkip ==
  /\ GridShown
  /\ ~GridDisabled(wstate)
  /\ wchallenge' = NullChallenge
  /\ FetchChallenge

\* handleReset, from the error card
WidgetReset ==
  /\ wstate = "error"
  /\ wchallenge' = NullChallenge
  /\ errorMsg' = ""
  /\ wstate' = "idle"
  /\ UNCHANGED <<inFlightRequests, sent, onVerifyCalls, onErrorCalls, successAnswers, verifiedAt>>

\* the answer to a fetch of fetchChallenge arrives
WidgetChallengeArrives ==
  \E req \in inFlightRequests : \E answer \in ChallengeAnswers :
    /\ req.kind = "challenge"
    /\ inFlightRequests' = inFlightRequests \ {req}
    /\ IF answer.ok
       THEN /\ wchallenge' = [challengeId |-> answer.challengeId]
            /\ wstate' = "challenge"
            /\ UNCHANGED <<errorMsg, onErrorCalls>>
       ELSE /\ errorMsg' = IF answer.failed THEN "Failed to fetch" ELSE "HTTP error"
            /\ wstate' = "error"
            /\ onErrorCalls' = onErrorCalls + 1
            /\ UNCHANGED wchallenge
    /\ UNCHANGED <<sent, onVerifyCalls, successAnswers, verifiedAt>>

\* handleSubmit up to its fetch, from the grid with a selection
WidgetSubmit ==
  /\ GridShown
  /\ ~GridDisabled(wstate)
  /\ sent < MaxRequests
  /\ wstate' = "verifying"
  /\ sent' = sent + 1
  /\ inFlightRequests' = inFlightRequests \cup
       {[kind |-> "verify", challengeId |-> wchallenge.challengeId, n |-> sent']}
  /\ UNCHANGED <<wchallenge, errorMsg, onVerifyCalls, onErrorCalls, successAnswers, verifiedAt>>

\* the answer to the fetch of handleSubmit arrives; `challenge` in the handler is the
\* challenge it was created with, whose id it posted
WidgetVerifyArrives ==
  \E req \in inFlightRequests : \E data \in VerifyAnswers(req.challengeId) :
    /\ req.kind = "verify"
    /\ inFlightRequests' = inFlightRequests \ {req}
    /\ successAnswers' = IF data.success THEN successAnswers + 1 ELSE successAnswers
    /\ IF data.failed
       THEN /\ errorMsg' = "Verification failed"
            /\ wstate' = "error"
            /\ onErrorCalls' = onErrorCalls + 1
            /\ UNCHANGED <<onVerifyCalls, verifiedAt>>
       ELSE IF data.success
       THEN \E outcome \in OnVerifyOutcomes :
              /\ onVerifyCalls' =
                   Append(onVerifyCalls,
                          [token |-> IF "token" \in DOMAIN data THEN data.token
                                     ELSE req.challengeId,
                           data |-> data, posted |-> req.challengeId,
                           shown |-> wchallenge])
              /\ IF outcome = "returns"
                 THEN /\ wstate' = "success"
                      /\ verifiedAt' = Len(onVerifyCalls')
                      /\ UNCHANGED <<errorMsg, onErrorCalls>>
                 ELSE /\ errorMsg' = "onVerify threw"
                      /\ wstate' = "error"
                      /\ onErrorCalls' = onErrorCalls + 1
                      /\ UNCHANGED verifiedAt
       ELSE /\ errorMsg' = "Incorrect"
            /\ wstate' = "error"
            /\ UNCHANGED <<onVerifyCalls, onErrorCalls, verifiedAt>>
    /\ UNCHANGED <<wchallenge, sent>>

WidgetNext ==
  \/ WidgetClick /\ UNCHANGED <<coreVars, normVars, webVars, genVars, faceVars, buildVars, evalVars, routeVars, pendVars, issueVars, altVars, parseVars>>
  \/ WidgetTryAgain /\ UNCHANGED <<coreVars, normVars, webVars, genVars, faceVars, buildVars, evalVars, routeVars, pendVars, issueVars, altVars, parseVars>>
  \/ WidgetSkip /\ UNCHANGED <<coreVars, normVars, webVars, genVars, faceVars, buildVars, evalVars, routeVars, pendVars, issueVars, altVars, parseVars>>
  \/ WidgetReset /\ UNCHANGED <<coreVars, normVars, webVars, genVars, faceVars, buildVars, evalVars, routeVars, pendVars, issueVars, altVars, parseVars>>
  \/ WidgetChallengeArrives /\ UNCHANGED <<coreVars, normVars, webVars, genVars, faceVars, buildVars, evalVars, routeVars, pendVars, issueVars, altVars, parseVars>>
  \/ WidgetSubmit /\ UNCHANGED <<coreVars, normVars, webVars, genVars, faceVars, buildVars, evalVars, routeVars, pendVars, issueVars, altVars, parseVars>>
  \/ WidgetVerifyArrives /\ UNCHANGED <<coreVars, normVars, webVars, genVars, faceVars, buildVars, evalVars, routeVars, pendVars, issueVars, altVars, parseVars>>

InitWidget == CoreInit /\ NormIdle /\ WebIdle /\ GenIdle /\ FacesIdle /\ BuildIdle /\ EvalIdle /\ RouteIdle /\ PendIdle /\ IssueIdle /\ AltIdle /\ ParseIdle /\ WidgetInit

SpecWidget == InitWidget /\ [][WidgetNext]_vars

----------------------------------------------------------------------------
(* apps/web/src/lib/challenge-store.ts on select-all challenges: the same store, *)
(* called with a challenge whose answer is a set of cells and with submissions   *)
(* that hit it, miss one cell, or add one cell.                                *)

WebCellChallenges == {Challenge(id, CellsAnswer({1, 3, 7}), MaxTime) : id \in WebIds}

WebCellResponses ==
  {[challengeId |-> id, answer |-> CellsAnswer(cells)] :
     id \in WebIds, cells \in {{1, 3, 7}, {1, 3}, {1, 3, 7, 9}}}

WebCellsNext ==
  \/ \E q \in Storers, ch \in WebCellChallenges : WebStoreInMemory(q, ch) /\ UNCHANGED <<normVars, genVars, outerVars>>
  \/ \E q \in Storers, ch \in WebCellChallenges : WebStoreStart(q, ch) /\ UNCHANGED <<normVars, genVars, outerVars>>
  \/ \E q \in Storers : WebUpsertOk(q) /\ UNCHANGED <<normVars, genVars, outerVars>>
  \/ \E q \in Storers : WebUpsertFailed(q) /\ UNCHANGED <<normVars, genVars, outerVars>>
  \/ \E q \in Verifiers, r \in WebCellResponses : WebVerifyInMemory(q, r) /\ UNCHANGED <<normVars, genVars, outerVars>>
  \/ \E q \in Verifiers, r \in WebCellResponses : WebVerifyStart(q, r) /\ UNCHANGED <<normVars, genVars, outerVars>>
  \/ \E q \in Verifiers : WebDeleteDone(q) /\ UNCHANGED <<normVars, genVars, outerVars>>
  \/ \E q \in Verifiers : WebDeleteFailed(q) /\ UNCHANGED <<normVars, genVars, outerVars>>
  \/ \E q \in Verifiers : WebVerifyResume(q) /\ UNCHANGED <<normVars, genVars, outerVars>>
  \/ WebTick /\ UNCHANGED <<normVars, genVars, outerVars>>

InitWebCells == CoreInit /\ NormIdle /\ WebInit /\ GenIdle /\ OuterIdle

SpecWebCells == InitWebCells /\ [][WebCellsNext]_vars

----------------------------------------------------------------------------
(* apps/web/src/lib/latcha-pending-store.ts and the two endpoints of the widget:   *)
(* GET /api/latcha/challenge picks a row of the captchas table and stores its      *)
(* answer with storePending; POST /api/latcha/verify consumes it and scores the    *)
(* selected cells. Every handler runs to its end without awaiting once it has its  *)
(* input (the rows, the body), so each is one step.                                *)

\* storePending: expiresAt: Date.now() + 5 * 60 * 1000
PENDING_TTL_MS == 5 * 60 * 1000

\* the ids of the rows of the captchas table
PendingIds == {"p1", "p2"}

\* the rows the select of the issuance endpoint returns
CaptchaRows ==
  {[challenge_id |-> "p1", correct_alternative |-> <<"1", ",", "3", ",", "7">>],
   [challenge_id |-> "p2", correct_alternative |-> <<"2", ",", "5">>]}

\* the bodies posted: each field present or not
VerifyBodies ==
  {[challengeId |-> "p1", selectedCells |-> <<1, 3, 7>>],
   [challengeId |-> "p1", selectedCells |-> <<2, 5, 9>>],
   [challengeId |-> "p2", selectedCells |-> <<2, 5, 9>>],
   [challengeId |-> "p1", selectedCells |-> <<>>],
   [challengeId |-> "p1"],
   [selectedCells |-> <<1, 3, 7>>]}

\* the amounts by which the clock is seen to advance
PendingSteps == {1, PENDING_TTL_MS - 1}

\* prunePending: the entries it leaves
PrunePending(entries, clock) ==
  [id \in {i \in DOMAIN entries : ~(entries[i].expiresAt < clock)} |-> entries[id]]

StorePendingKeepsFirst(entries, challengeId, correctAnswer, clock) ==
  IF challengeId \in DOMAIN PrunePending(entries, clock)
    THEN PrunePending(entries, clock)
    ELSE MapSet(PrunePending(entries, clock), challengeId,
                [correctAnswer |-> correctAnswer, expiresAt |-> clock + PENDING_TTL_MS])

\* storePending: the entries it leaves
StorePending(entries, challengeId, correctAnswer, clock) ==
  MapSet(PrunePending(entries, clock), challengeId,
         [correctAnswer |-> correctAnswer, expiresAt |-> clock + PENDING_TTL_MS])

ConsumePendingKeepsExpired(entries, challengeId, clock) ==
  IF challengeId \notin DOMAIN entries THEN [entries |-> entries, ret |-> {}]
  ELSE IF entries[challengeId].expiresAt > clock
    THEN [entries |-> MapDelete(entries, challengeId), ret |-> {entries[challengeId]}]
    ELSE [entries |-> entries, ret |-> {}]

\* consumePending: the entries it leaves and the entry it returns ({} for undefined)
ConsumePending(entries, challengeId, clock) ==
  IF challengeId \notin DOMAIN entries THEN [entries |-> entries, ret |-> {}]
  ELSE [entries |-> MapDelete(entries, challengeId),
        ret |-> IF entries[challengeId].expiresAt > clock
                  THEN {entries[challengeId]} ELSE {}]

\* parseNumericSet
ParseNumericSet(str) == ParsedNums(str)

\* isAnswerCorrect of the verify route
IsAnswerCorrectCells(selectedCells, correctAnswer) ==
  LET correctSet == ParseNumericSet(correctAnswer)
      submittedSet == {n \in Range(selectedCells) : n > 0}
  IN  IF correctSet \subseteq submittedSet /\ submittedSet \subseteq correctSet THEN TRUE
      ELSE Cardinality(correctSet \ submittedSet)
             + Cardinality(submittedSet \ correctSet) <= 1

BadRequestAllowsEmpty(body) ==
  \/ "challengeId" \notin DOMAIN body
  \/ body.challengeId = ""
  \/ "selectedCells" \notin DOMAIN body

\* !challengeId || !Array.isArray(selectedCells) || selectedCells.length === 0
BadRequest(body) ==
  \/ "challengeId" \notin DOMAIN body
  \/ body.challengeId = ""
  \/ "selectedCells" \notin DOMAIN body
  \/ body.selectedCells = <<>>

\* NextResponse.json(body, {status}); a field that is undefined is not sent
Reply(status, body) == [status |-> status, body |-> body]

\* what POST answers to a body, on the entries and at the time it finds
VerifyReply(entries, body, clock) ==
  IF BadRequest(body)
    THEN [entries |-> entries, consumed |-> FALSE,
          reply |-> Reply(400, [success |-> FALSE, error |-> "Missing challengeId or selectedCells"])]
  ELSE LET c == ConsumePending(entries, body.challengeId, clock) IN
    IF c.ret = {}
      THEN [entries |-> c.entries, consumed |-> TRUE,
            reply |-> Reply(404, [success |-> FALSE, error |-> "Challenge not found or expired. Please request a new one."])]
    ELSE LET found == CHOOSE e \in c.ret : TRUE
             success == IsAnswerCorrectCells(body.selectedCells, found.correctAnswer)
         IN  [entries |-> c.entries, consumed |-> TRUE,
              reply |-> Reply(200, IF success
                                    THEN [success |-> TRUE, token |-> body.challengeId]
                                    ELSE [success |-> FALSE])]

PendInit ==
  /\ pendingEntries = EmptyMap
  /\ pnow = 0
  /\ pticks = 0
  /\ plast = NoRequest
  /\ handed = [i \in PendingIds |-> 0]
  /\ returned = [i \in PendingIds |-> 0]
  /\ consumedSince = {}

\* the entry held for an id, as a set
EntryOf(entries, id) == IF id \in DOMAIN entries THEN {entries[id]} ELSE {}

\* the status of the answer to the request before, 0 if it was no POST
StatusBefore == IF plast.op = "verify" THEN plast.reply.status ELSE 0

\* GET /api/latcha/challenge answers with a challenge
PendingIssue(row) ==
  /\ handed[row.challenge_id] < MaxHanded
  /\ pendingEntries' =
       StorePending(pendingEntries, row.challenge_id, row.correct_alternative, pnow)
  /\ handed' = Bump(handed, row.challenge_id)
  /\ returned' = [returned EXCEPT ![row.challenge_id] = 0]
  /\ consumedSince' = consumedSince \ {row.challenge_id}
  /\ plast' = [op |-> "issue", id |-> row.challenge_id,
               preEntry |-> EntryOf(pendingEntries, row.challenge_id), now |-> pnow,
               reply |-> Reply(200, [challengeId |-> row.challenge_id])]
  /\ UNCHANGED <<pnow, pticks>>

\* GET /api/latcha/challenge fails: the select fails, returns no row or a malformed one
PendingIssueFails ==
  /\ plast.op # "issueFails"
  /\ UNCHANGED <<pendingEntries, pnow, pticks, handed, returned, consumedSince>>
  /\ \E status \in {404, 500} :
       plast' = [op |-> "issueFails", untouched |-> pendingEntries' = pendingEntries,
                 reply |-> Reply(status, [error |-> "error"])]

\* POST /api/latcha/verify with a body that parses
PendingVerify(body) ==
  LET r == VerifyReply(pendingEntries, body, pnow) IN
    /\ pendingEntries' = r.entries
    /\ plast' = [op |-> "verify", body |-> body, now |-> pnow,
                 preEntry |-> IF "challengeId" \in DOMAIN body
                                THEN EntryOf(pendingEntries, body.challengeId) ELSE {},
                 untouched |-> pendingEntries' = pendingEntries,
                 consumed |-> r.consumed, reply |-> r.reply,
                 statusBefore |-> StatusBefore,
                 handedBeforeThat |-> IF plast.op = "verify" THEN plast.handedBefore ELSE 0,
                 handedBefore |-> IF r.consumed /\ body.challengeId \in PendingIds
                                    THEN handed[body.challengeId] ELSE 0,
                 again |-> r.consumed /\ body.challengeId \in consumedSince]
    /\ handed' = IF r.consumed /\ body.challengeId \in PendingIds
                   THEN [handed EXCEPT ![body.challengeId] = 0] ELSE handed
    /\ returned' = IF r.reply.status = 200 THEN Bump(returned, body.challengeId)
                   ELSE returned
    /\ consumedSince' = IF r.consumed THEN consumedSince \cup {body.challengeId}
                        ELSE consumedSince
    /\ UNCHANGED <<pnow, pticks>>

\* POST /api/latcha/verify with a body request.json() rejects
PendingVerifyUnreadable ==
  /\ plast.op # "unreadable"
  /\ UNCHANGED <<pendingEntries, pnow, pticks, handed, returned, consumedSince>>
  /\ plast' = [op |-> "unreadable", untouched |-> pendingEntries' = pendingEntries,
               reply |-> Reply(500, [success |-> FALSE, error |-> "Unexpected token"])]

\* time passes
PendingTick(d) ==
  /\ pticks < MaxTicks
  /\ pnow' = pnow + d
  /\ pticks' = pticks + 1
  /\ UNCHANGED <<pendingEntries, plast, handed, returned, consumedSince>>

PendNext ==
  \/ \E row \in CaptchaRows : PendingIssue(row) /\ UNCHANGED <<coreVars, normVars, webVars, genVars, faceVars, buildVars, evalVars, routeVars, widgetVars, issueVars, altVars, parseVars>>
  \/ PendingIssueFails /\ UNCHANGED <<coreVars, normVars, webVars, genVars, faceVars, buildVars, evalVars, routeVars, widgetVars, issueVars, altVars, parseVars>>
  \/ \E body \in VerifyBodies : PendingVerify(body) /\ UNCHANGED <<coreVars, normVars, webVars, genVars, faceVars, buildVars, evalVars, routeVars, widgetVars, issueVars, altVars, parseVars>>
  \/ PendingVerifyUnreadable /\ UNCHANGED <<coreVars, normVars, webVars, genVars, faceVars, buildVars, evalVars, routeVars, widgetVars, issueVars, altVars, parseVars>>
  \/ \E d \in PendingSteps : PendingTick(d) /\ UNCHANGED <<coreVars, normVars, webVars, genVars, faceVars, buildVars, evalVars, routeVars, widgetVars, issueVars, altVars, parseVars>>

InitPend == CoreInit /\ NormIdle /\ WebIdle /\ GenIdle /\ FacesIdle /\ BuildIdle /\ EvalIdle /\ RouteIdle /\ WidgetIdle /\ IssueIdle /\ AltIdle /\ ParseIdle /\ PendInit

SpecPend == InitPend /\ [][PendNext]_vars

----------------------------------------------------------------------------
(* The ids of the challenges issued. A generator takes the id of its challenge from  *)
(* createChallengeShell, which calls generateId(), crypto.randomUUID(): a value of   *)
(* 122 random bits, modelled as a value no earlier call returned. A challenge built  *)
(* from pre-generated storage (apps/web/src/lib/generations.ts, buildGenerationChallenge) *)
(* takes the id `generation-${selected.challengeId}-${Date.now()}`. Both are then    *)
(* stored by storeChallenge, here in the store of the core. An id is the sequence of *)
(* its parts.                                                                        *)

\* buildGenerationChallenge: expiresAt: Date.now() + 1000 * 60 * 15
GENERATION_TTL_MS == 1000 * 60 * 15

\* the values crypto.randomUUID() draws from
Uuids == {<<"uuid", n>> : n \in 1..MaxIssued}

\* the challengeIds of the saved generations
SavedIds == {"g1", "g2"}

\* `generation-${selected.challengeId}-${Date.now()}`
GenerationId(challengeId, clock) == <<"generation", challengeId, clock>>

IssueInit == issuedIds = <<>> /\ ipc = "on"

\* a generator builds a challenge on createChallengeShell() and it is stored
IssueGenerated(uuid) ==
  /\ ipc = "on"
  /\ Len(issuedIds) < MaxIssued
  /\ \A k \in 1..Len(issuedIds) : issuedIds[k].id # uuid
  /\ issuedIds' = Append(issuedIds, [id |-> uuid, source |-> "generator"])
  /\ StoreChallenge(Challenge(uuid, Str(<<"B">>), now + CHALLENGE_TTL_MS))
  /\ UNCHANGED ipc

\* buildGenerationChallenge builds a challenge from a saved generation and it is stored
IssueSaved(challengeId) ==
  /\ ipc = "on"
  /\ Len(issuedIds) < MaxIssued
  /\ LET id == GenerationId(challengeId, now) IN
       /\ issuedIds' = Append(issuedIds, [id |-> id, source |-> challengeId])
       /\ StoreChallenge(Challenge(id, Str(<<"B">>), now + GENERATION_TTL_MS))
  /\ UNCHANGED ipc

IssueTick == ipc = "on" /\ Tick /\ UNCHANGED <<issuedIds, ipc>>

IssueNext ==
  \/ \E uuid \in Uuids : IssueGenerated(uuid) /\ UNCHANGED <<normVars, webVars, genVars, faceVars, buildVars, evalVars, routeVars, widgetVars, pendVars, altVars, parseVars>>
  \/ \E challengeId \in SavedIds : IssueSaved(challengeId) /\ UNCHANGED <<normVars, webVars, genVars, faceVars, buildVars, evalVars, routeVars, widgetVars, pendVars, altVars, parseVars>>
  \/ IssueTick /\ UNCHANGED <<normVars, webVars, genVars, faceVars, buildVars, evalVars, routeVars, widgetVars, pendVars, altVars, parseVars>>

InitIssue == CoreInit /\ NormIdle /\ WebIdle /\ GenIdle /\ FacesIdle /\ BuildIdle /\ EvalIdle /\ RouteIdle /\ WidgetIdle /\ PendIdle /\ AltIdle /\ ParseIdle /\ IssueInit

SpecIssue == InitIssue /\ [][IssueNext]_vars

----------------------------------------------------------------------------
(* packages/core/src/generators: the loops that collect the distractors. Next to   *)
(* the permutation loop above there are the substitution loop of partial-occlusion *)
(* (generateDistractors: up to 50 substitutions of one letter by a similar one,    *)
(* then words of the word list) and the pickers of proximity-text and              *)
(* abutting-grating (pickDistractors: characters drawn until 3 are collected).     *)
(* Each pass of a loop is one step; its random draws are the choices of the step.  *)

\* proximity-text.ts, abutting-grating.ts: CHARS
CHARS ==
  <<"A", "B", "C", "D", "E", "F", "G", "H", "J", "K", "L", "M", "N", "P", "R", "S",
    "T", "U", "V", "W", "X", "Y", "Z", "2", "3", "4", "5", "6", "7", "8", "9">>

\* partial-occlusion.ts: WORDS, four of its words
WORDS == <<<<"B", "O", "L", "D">>, <<"C", "A", "L", "M">>, <<"D", "A", "R", "K">>,
           <<"E", "C", "H", "O">>>>

\* partial-occlusion.ts: SIMILAR_LETTERS, for the letters of the secret words drawn
SIMILAR_LETTERS(c) ==
  CASE c = "B" -> <<"D", "P", "R">>
    [] c = "O" -> <<"Q", "C", "D">>
    [] c = "L" -> <<"I", "T", "J">>
    [] c = "D" -> <<"B", "P", "O">>

\* generateDistractors: while (distractors.size < count && attempts < 50)
MaxSubstitutions == 50

LoopGenerators == {"grid-overlay", "partial-occlusion", "proximity-text", "abutting-grating"}

\* the secret generate() draws before it collects the distractors
LoopTokens(g) ==
  CASE g = "grid-overlay" -> GenTokens(g)
    [] g = "partial-occlusion" -> {WORDS[1]}
    [] OTHER -> {<<"A">>, <<"9">>}

\* the loop generate() of g enters
LoopOf(g) ==
  CASE g = "grid-overlay" -> "loop"
    [] g = "partial-occlusion" -> "substitute"
    [] OTHER -> "pick"

\* pickDistractors of proximity-text: d !== target && !distractors.has(d); the one of
\* abutting-grating tests c !== target and leaves the rest to the Set
PickAccepted(d, target, out) == d # target /\ d \notin out

FallbackAcceptedAny(fallback, word, out) == fallback \notin out

\* generateDistractors: fallback !== word && !distractors.has(fallback)
FallbackAccepted(fallback, word, out) == fallback # word /\ fallback \notin out

\* generate() is called: the secret is drawn and the loop entered
LoopStart(g) ==
  /\ gpc \in {"idle", "done"}
  /\ gen' = g
  /\ token' \in LoopTokens(g)
  /\ distractors' = {}
  /\ attempts' = 0
  /\ gpc' = LoopOf(g)
  /\ challenge' = NoChallenge

\* one pass of the first loop of generateDistractors(word, 3)
SubstituteAttempt ==
  /\ gpc = "substitute"
  /\ Cardinality(distractors) < 3 /\ attempts < MaxSubstitutions
  /\ \E pos \in 1..Len(token) : \E sub \in Range(SIMILAR_LETTERS(token[pos])) :
       LET d == [token EXCEPT ![pos] = sub]
           out == IF d # token THEN distractors \cup {d} ELSE distractors
       IN  /\ distractors' = out
           /\ attempts' = attempts + 1
           /\ gpc' = IF Cardinality(out) < 3 /\ attempts + 1 < MaxSubstitutions
                       THEN "substitute"
                     ELSE IF Cardinality(out) < 3 THEN "fallback" ELSE "built"
  /\ UNCHANGED <<gen, token, challenge>>

\* one pass of the second loop of generateDistractors(word, 3)
FallbackAttempt ==
  /\ gpc = "fallback"
  /\ Cardinality(distractors) < 3
  /\ \E fallback \in Range(WORDS) :
       LET out == IF FallbackAccepted(fallback, token, distractors)
                    THEN distractors \cup {fallback} ELSE distractors
       IN  /\ distractors' = out
           /\ gpc' = IF Cardinality(out) < 3 THEN "fallback" ELSE "built"
  /\ UNCHANGED <<gen, token, attempts, challenge>>

\* one pass of the loop of pickDistractors(target, 3)
PickAttempt ==
  /\ gpc = "pick"
  /\ Cardinality(distractors) < 3
  /\ \E d \in Range(CHARS) :
       LET out == IF PickAccepted(<<d>>, token, distractors)
                    THEN distractors \cup {<<d>>} ELSE distractors
       IN  /\ distractors' = out
           /\ gpc' = IF Cardinality(out) < 3 THEN "pick" ELSE "built"
  /\ UNCHANGED <<gen, token, attempts, challenge>>

\* the helper returns [...distractors]
DistractorsReturn ==
  /\ gpc = "built"
  /\ challenge' = [op |-> "distractors", generatorId |-> gen, secret |-> token,
                   ret |-> Spread(distractors)]
  /\ gpc' = "done"
  /\ UNCHANGED <<gen, token, distractors, attempts>>

LoopsNext ==
  \/ \E g \in LoopGenerators : LoopStart(g) /\ UNCHANGED <<coreVars, normVars, webVars, outerVars>>
  \/ PermutationAttempt /\ UNCHANGED <<coreVars, normVars, webVars, outerVars>>
  \/ SubstituteAttempt /\ UNCHANGED <<coreVars, normVars, webVars, outerVars>>
  \/ FallbackAttempt /\ UNCHANGED <<coreVars, normVars, webVars, outerVars>>
  \/ PickAttempt /\ UNCHANGED <<coreVars, normVars, webVars, outerVars>>
  \/ DistractorsReturn /\ UNCHANGED <<coreVars, normVars, webVars, outerVars>>

InitLoops == CoreInit /\ NormIdle /\ WebIdle /\ GenInit /\ OuterIdle

\* a pass that brings its loop nearer to its return, in the loops whose end depends
\* on what is drawn: any pass of the substitution loop, and a pass that adds a
\* distractor in the fallback loop and in the pickers
LoopProgress ==
  \/ SubstituteAttempt
  \/ FallbackAttempt /\ distractors' # distractors
  \/ PickAttempt /\ distractors' # distractors

\* the draws are fair: a loop that can make a pass makes one, and a loop whose pass
\* can add a distractor does not draw forever without adding one
LoopsFairness == WF_genVars(LoopProgress)

SpecLoops == InitLoops /\ [][LoopsNext]_vars /\ LoopsFairness


----------------------------------------------------------------------------
(* scripts/pregenerate-captchas.ts: ensureFourAlternatives(correctAlternative,       *)
(* options) fills the options of a pregenerated challenge up to four with            *)
(* generateTokenLikeDistractor, cuts them to four and shuffles them. A string is the *)
(* sequence of its characters. One step of the model is one pass of the while loop.  *)

\* 'ABCDEFGHIJKLMNOPQRSTUVWXYZ23456789'.split('')
TokenPool ==
  <<"A", "B", "C", "D", "E", "F", "G", "H", "I", "J", "K", "L", "M", "N", "O", "P", "Q",
    "R", "S", "T", "U", "V", "W", "X", "Y", "Z", "2", "3", "4", "5", "6", "7", "8", "9">>

\* the characters pool[Math.floor(Math.random() * pool.length)] draws
PoolDraws == {TokenPool[k] : k \in 1..MaxPoolDraws}

\* the digits Math.floor(Math.random() * 10) draws
DigitDraws == {DigitChars[k + 1] : k \in 0..MaxDigitDraw}

\* correct.split('').reverse()
RECURSIVE Reverse(_)
Reverse(s) == IF s = <<>> THEN <<>> ELSE Append(Reverse(Tail(s)), Head(s))

\* uniqueStrings(values): the first occurrences of the non-empty values, in order
RECURSIVE UniqueStrings(_)
UniqueStrings(values) ==
  IF values = <<>> THEN <<>>
  ELSE LET out == UniqueStrings(SubSeq(values, 1, Len(values) - 1))
           value == values[Len(values)]
       IN  IF value = <<>> \/ value \in Range(out) THEN out ELSE Append(out, value)

\* generateTokenLikeDistractor(correct, existing): the strings a call can return. For
\* a token of several characters each of the 50 attempts draws a shuffle of them, which
\* can be the token itself, so the call returns either a shuffle that is neither
\* the token nor in existing, or, after 50 misses, the reversed token with "-X".
GenerateTokenLikeDistractor(correct, existing) ==
  IF Len(correct) <= 1
  THEN {IF <<fallback>> \notin existing THEN <<fallback>> ELSE <<fallback, digit>> :
          fallback \in PoolDraws, digit \in DigitDraws}
  ELSE {candidate \in Shuffle(correct) : candidate \notin existing /\ candidate # correct}
         \cup {Reverse(correct) \o <<"-", "X">>}

\* the correct alternatives: a character, a token of one repeated letter, a word, a
\* comma-joined cell list
CorrectAlternatives == {<<"A">>, <<"A", "A">>, <<"C", "A", "B">>, <<"1", ",", "3">>}

\* the option lists: absent, shorter than four, with a duplicate and an empty string,
\* longer than four with the correct alternative beyond the fourth place
OptionLists ==
  {<<>>,
   <<<<"B">>>>,
   <<<<"B">>, <<"A">>, <<"B">>, <<>>, <<"C">>>>,
   <<<<"B">>, <<"C">>, <<"D">>, <<"E">>, <<"A">>, <<"A", "A">>>>}

AltInit == AltIdle

\* const base = uniqueStrings([...(options ?? []), correctAlternative]); seen = new Set(base)
EnsureStart(correct, options) ==
  /\ altPc = "off"
  /\ correctAlternative' = correct
  /\ altBase' = UniqueStrings(Append(options, correct))
  /\ altSeen' = Range(altBase')
  /\ altPc' = "loop"
  /\ UNCHANGED alternatives

\* one pass of while (base.length < 4)
EnsurePass ==
  /\ altPc = "loop"
  /\ Len(altBase) < 4
  /\ \E candidate \in GenerateTokenLikeDistractor(correctAlternative, altSeen) :
       IF candidate \notin altSeen
       THEN altSeen' = altSeen \cup {candidate} /\ altBase' = Append(altBase, candidate)
       ELSE UNCHANGED <<altSeen, altBase>>
  /\ UNCHANGED <<altPc, correctAlternative, alternatives>>

\* const trimmed = base.slice(0, 4); trimmed[0] = correctAlternative unless included
Trimmed(list, correct) ==
  LET trimmed == SubSeq(list, 1, 4)
  IN  IF correct \in Range(trimmed) THEN trimmed ELSE [trimmed EXCEPT ![1] = correct]

\* return shuffle(trimmed)
EnsureReturn ==
  /\ altPc = "loop"
  /\ Len(altBase) >= 4
  /\ alternatives' \in Shuffle(Trimmed(altBase, correctAlternative))
  /\ altPc' = "returned"
  /\ UNCHANGED <<correctAlternative, altBase, altSeen>>

AltNext ==
  \/ \E correct \in CorrectAlternatives, options \in OptionLists :
       EnsureStart(correct, options) /\ UNCHANGED <<coreVars, normVars, webVars, genVars, faceVars, buildVars, evalVars, routeVars, widgetVars, pendVars, issueVars, parseVars>>
  \/ EnsurePass /\ UNCHANGED <<coreVars, normVars, webVars, genVars, faceVars, buildVars, evalVars, routeVars, widgetVars, pendVars, issueVars, parseVars>>
  \/ EnsureReturn /\ UNCHANGED <<coreVars, normVars, webVars, genVars, faceVars, buildVars, evalVars, routeVars, widgetVars, pendVars, issueVars, parseVars>>

InitAlt == CoreInit /\ NormIdle /\ WebIdle /\ GenIdle /\ FacesIdle /\ BuildIdle /\ EvalIdle /\ RouteIdle /\ WidgetIdle /\ PendIdle /\ IssueIdle /\ ParseIdle /\ AltInit

SpecAlt == InitAlt /\ [][AltNext]_vars

----------------------------------------------------------------------------
(* prompts.ts: parseAnswer(raw) called without options, as the evaluation harness    *)
(* calls it for a select-all challenge, on the responses of at most MaxRawLen        *)
(* characters over RawChars, and on its own results.                                 *)

\* the characters of a response: digits of the grid, the digit 0, a separator, a
\* blank and a letter
RawChars == {"1", "3", "7", "0", ",", " ", "x"}

RawResponses == UNION {[1..k -> RawChars] : k \in 0..MaxRawLen}

\* a challenge with no options
SelectAllChallenge == [id |-> "e1", correctAnswer |-> CellsAnswer({1, 3, 7})]

ParseInit == parseRaw = <<>> /\ parseOut = <<>> /\ parsePc = "ready"

\* parseAnswer(raw)
ParseResponse(raw) ==
  /\ parsePc = "ready"
  /\ parseRaw' = raw
  /\ parseOut' = ParseAnswer(raw, SelectAllChallenge)
  /\ parsePc' = "parsed"

\* parseAnswer(parseAnswer(raw))
ParseOwnResult ==
  /\ parsePc = "parsed"
  /\ parseRaw' = parseOut
  /\ parseOut' = ParseAnswer(parseOut, SelectAllChallenge)
  /\ parsePc' = "reparsed"

ParseNext ==
  \/ \E raw \in RawResponses : ParseResponse(raw) /\ UNCHANGED <<coreVars, normVars, webVars, genVars, faceVars, buildVars, evalVars, routeVars, widgetVars, pendVars, issueVars, altVars>>
  \/ ParseOwnResult /\ UNCHANGED <<coreVars, normVars, webVars, genVars, faceVars, buildVars, evalVars, routeVars, widgetVars, pendVars, issueVars, altVars>>

InitParse == CoreInit /\ NormIdle /\ WebIdle /\ GenIdle /\ FacesIdle /\ BuildIdle /\ EvalIdle /\ RouteIdle /\ WidgetIdle /\ PendIdle /\ IssueIdle /\ AltIdle /\ ParseInit

SpecParse == InitParse /\ [][ParseNext]_vars
----------------------------------------------------------------------------
(* Properties of the core store *)

IsVerify == last.op = "verify"

\* the entry verify found, when it found one
Found == last.pre[last.id]

WasStored == IsVerify /\ last.id \in DOMAIN last.pre

WasExpired == WasStored /\ Found.expiresAt < last.now

WasLive == WasStored /\ ~(Found.expiresAt < last.now)

\* C1: once verify has been called for an id, every later verify for that id returns
\* success = false, as long as storeChallenge has not inserted the id again in between.
C1_SingleUse == (IsVerify /\ last.again) => last.ret.success = FALSE

\* the happy path of C1: " b " repeated for an id whose challenge was consumed
C1_Witness ==
  /\ IsVerify /\ last.again
  /\ last.id \notin DOMAIN last.pre
  /\ last.answer = Str(<<" ", "b", " ">>)
  /\ last.ret.success = FALSE

\* C2: verify on a stored challenge whose expiresAt is earlier than the current time
\* returns success = false whatever the answer, the exact correct answer included.
C2_ExpiredFails == WasExpired => last.ret.success = FALSE

C2_Witness ==
  /\ WasExpired
  /\ last.answer = Found.correctAnswer
  /\ last.ret.success = FALSE

\* the cells an array answer names, read as the claim reads it: the elements that
\* are one of "1".."9"
CellsOf(answer) == {n \in 1..9 : CellStr(n) \in Range(answer.v)}

IsCellArray(answer) ==
  answer.arr /\ \A i \in 1..Len(answer.v) : \E n \in 1..9 : answer.v[i] = CellStr(n)

Errors(c, s) == Cardinality(c \ s) + Cardinality(s \ c)

IsSelectAllCase ==
  /\ WasLive
  /\ IsCellArray(Found.correctAnswer) /\ CellsOf(Found.correctAnswer) # {}
  /\ IsCellArray(last.answer)

\* C3 as stated: for a stored, unexpired select-all challenge with a non-empty correct
\* set and every submitted set of cells, the empty set included, verify succeeds
\* exactly when misses + false positives <= 1.
C3_ToleranceAsStated ==
  IsSelectAllCase =>
    (last.ret.success <=> Errors(CellsOf(Found.correctAnswer), CellsOf(last.answer)) <= 1)

\* C3 amended: the same for every non-empty submitted set; an empty submission
\* never succeeds, also when the correct set has a single cell.
C3_Tolerance ==
  IsSelectAllCase =>
    IF CellsOf(last.answer) = {}
      THEN last.ret.success = FALSE
      ELSE (last.ret.success <=>
              Errors(CellsOf(Found.correctAnswer), CellsOf(last.answer)) <= 1)

\* the boundary of C3: correct {1,3,7}, submitted {1,7} (one miss), accepted
C3_Witness ==
  /\ IsSelectAllCase
  /\ CellsOf(Found.correctAnswer) = {1, 3, 7}
  /\ CellsOf(last.answer) = {1, 7}
  /\ last.ret.success = TRUE

\* C4: for a stored, unexpired challenge whose correctAnswer is a string, verify
\* succeeds exactly when the submitted answer, trimmed and upper-cased (an array:
\* each element so, sorted and joined), equals correctAnswer trimmed and upper-cased;
\* no tolerance applies, also when correctAnswer looks like a list of cells.
C4_MultipleChoiceExact ==
  (WasLive /\ ~Found.correctAnswer.arr) =>
    (last.ret.success <=>
       (IF last.answer.arr THEN NormalizeAnswer(last.answer)
                           ELSE ToUpperCase(Trim(last.answer.v)))
         = ToUpperCase(Trim(Found.correctAnswer.v)))

\* correctAnswer "1,3,7" as a string: the near match "1,3" is refused
C4_Witness ==
  /\ WasLive
  /\ Found.correctAnswer = Str(<<"1", ",", "3", ",", "7">>)
  /\ last.answer = Str(<<"1", ",", "3">>)
  /\ last.ret.success = FALSE

\* C5: whenever verify finds the id in the store, the entry is gone when verify
\* returns, whether the challenge had expired, was answered wrongly or correctly,
\* and every other entry is as it was.
C5_VerifyConsumes ==
  WasStored =>
    /\ DOMAIN store = DOMAIN last.pre \ {last.id}
    /\ \A i \in DOMAIN store : store[i] = last.pre[i]

C5_Witness ==
  /\ WasLive
  /\ last.ret.success = FALSE
  /\ last.id \notin DOMAIN store
  /\ DOMAIN store # {}

\* C6: verify returns the same value, {success: false, challengeId}, for an id that is
\* not stored, for an expired challenge and for a live one answered wrongly, and on an
\* absent id it leaves the store as it was.
C6_FailureUniform ==
  IsVerify =>
    /\ last.branch \in {"absent", "expired", "wrong"} =>
         last.ret = [success |-> FALSE, challengeId |-> last.id]
    /\ last.id \notin DOMAIN last.pre => (last.branch = "absent" /\ store = last.pre)
    /\ WasExpired => last.branch = "expired"
    /\ (WasLive /\ ~last.ret.success) => last.branch = "wrong"

C6_Witness ==
  /\ IsVerify
  /\ last.id \notin DOMAIN last.pre
  /\ DOMAIN store # {}
  /\ last.ret = [success |-> FALSE, challengeId |-> last.id]

\* C9: pruneExpired removes exactly the entries whose expiresAt is earlier than the
\* current time, leaves the others as they were, returns the number it removed, and
\* leaves no expired entry behind.
C9_PruneExact ==
  last.op = "pruneExpired" =>
    LET gone == {i \in DOMAIN last.pre : last.pre[i].expiresAt < last.now} IN
      /\ DOMAIN store = DOMAIN last.pre \ gone
      /\ \A i \in DOMAIN store : store[i] = last.pre[i]
      /\ last.ret = Cardinality(gone)
      /\ \A i \in DOMAIN store : ~(store[i].expiresAt < last.now)

\* one entry swept, one entry expiring at this very instant kept
C9_Witness ==
  /\ last.op = "pruneExpired"
  /\ last.ret = 1
  /\ \E i \in DOMAIN store : store[i].expiresAt = last.now

----------------------------------------------------------------------------
(* Properties of normalizeAnswer *)

CaseForms(c) ==
  CASE c \in {"a", "A"} -> {"a", "A"}
    [] c \in {"b", "B"} -> {"b", "B"}
    [] OTHER -> {c}

\* the strings that differ from s in letter case only
Recased(s) == {t \in [1..Len(s) -> NormChars \cup {"B"}] : \A i \in 1..Len(s) : t[i] \in CaseForms(s[i])}

Blanks == {<<>>, <<" ">>}

\* the strings that differ from s in leading and trailing whitespace only
Padded(s) == {l \o s \o r : l \in Blanks, r \in Blanks}

\* the arrays whose i-th element is drawn from the i-th set
RECURSIVE Choices(_)
Choices(sets) ==
  IF sets = <<>> THEN {<<>>}
  ELSE {<<h>> \o t : h \in Head(sets), t \in Choices(Tail(sets))}

\* the string answers and array answers obtained from x by changing letter case, by
\* adding whitespace around the string or around elements, or by reordering elements
Variants(x) ==
  IF x.arr
    THEN LET n == Len(x.v) IN
           {Arr(v) : v \in Choices([i \in 1..n |-> Recased(x.v[i])])}
             \cup {Arr(v) : v \in Choices([i \in 1..n |-> Padded(x.v[i])])}
             \cup {Arr([i \in 1..n |-> x.v[p[i]]]) : p \in Permutations(1..n)}
    ELSE {Str(v) : v \in Recased(x.v) \cup Padded(x.v)}

\* C8: normalizeAnswer(normalizeAnswer(x)) = normalizeAnswer(x), and the result is the
\* same for every answer that differs from x in letter case, in whitespace around the
\* string or around array elements, or in the order of the array elements.
C8_NormalizeStable ==
  npc = "twice" =>
    /\ nyy = ny
    /\ \A v \in Variants(nx) : NormalizeAnswer(v) = ny

\* an array answer out of order, in lower case: its normal form is "A,B"
C8_Witness ==
  /\ npc = "twice"
  /\ nx = Arr(<<<<"b">>, <<"a">>>>)
  /\ ny = <<"A", ",", "B">>
  /\ nyy = ny

----------------------------------------------------------------------------
(* Properties of the web store *)

\* C7: verification attempts for the same stored challenge that are in flight
\* together, both with the correct answer, do not both succeed: however the requests
\* interleave, on the in-memory paths and on the delete-and-return path, the
\* successful verifications of an id never outnumber the storeChallenge calls for it,
\* so a challenge stored once is redeemed at most once.
C7_AtMostOneSuccess == \A i \in WebIds : successes[i] <= stores[i]

\* two requests for a challenge stored once, in flight at the same time, both with
\* the correct answer: one has succeeded, the other has failed
C7_Witness ==
  /\ stores["c1"] = 1 /\ successes["c1"] = 1
  /\ \A q \in Verifiers :
       /\ proc[q].pc = "idle" /\ proc[q].overlap
       /\ proc[q].response = [challengeId |-> "c1", answer |-> Str(<<"B">>)]
  /\ proc["v1"].ret.success # proc["v2"].ret.success

----------------------------------------------------------------------------
(* Properties of the generators *)

\* C10: every challenge generate() returns has exactly 4 options, pairwise distinct,
\* exactly one of which equals correctAnswer, whatever the random choices were.
C10_FourDistinctOptions ==
  challenge.op = "generate" =>
    /\ Len(challenge.options) = 4
    /\ \A i, j \in 1..Len(challenge.options) :
         i # j => challenge.options[i] # challenge.options[j]
    /\ Cardinality({i \in 1..Len(challenge.options) :
                      challenge.options[i] = challenge.correctAnswer}) = 1

----------------------------------------------------------------------------
(* Properties of the generators that call the external service *)

FacesReturned == fgen = "illusion-faces" /\ result.kind = "challenge"

\* C11: a challenge illusion-faces returns has exactly nine images and no options; its
\* correctAnswer is an array of two to five pairwise distinct strings among "1".."9",
\* in ascending cell order; and the i-th image is a face cell exactly when the string
\* of i is in correctAnswer.
C11_FacesShape ==
  FacesReturned =>
    LET ch == result.challenge
        answer == ch.correctAnswer
    IN  /\ Len(ch.images) = 9
        /\ "options" \notin DOMAIN ch
        /\ answer.arr
        /\ Len(answer.v) \in 2..5
        /\ \A i \in 1..Len(answer.v) : \E n \in 1..9 : answer.v[i] = CellStr(n)
        /\ \A i, j \in 1..Len(answer.v) :
             i < j => DigitVal(answer.v[i][1]) < DigitVal(answer.v[j][1])
        /\ \A i \in 1..9 : (ch.images[i].kind = "face") <=> (CellStr(i) \in Range(answer.v))

C11_Witness ==
  /\ FacesReturned
  /\ result.challenge.correctAnswer = CellsAnswer({2, 3, 5, 8, 9})

\* C17: when FAL_KEY is not set (or empty), generate() of illusion-faces and of
\* illusion-diffusion fails with the configuration error, having requested nothing of
\* the external service and created no part of a Challenge (no id, no expiry, no
\* image); the call ends there.
C17_KeyRequired ==
  (fpc # "idle" /\ env.FAL_KEY \in {Unset, ""}) =>
    /\ fpc = "done"
    /\ result = Failure("FAL_KEY environment variable is required")
    /\ requests = <<>>
    /\ shell = NoShell
    /\ images = <<>>

C17_Witness ==
  /\ fpc = "done"
  /\ fgen = "illusion-diffusion"
  /\ env.FAL_KEY = Unset
  /\ result.kind = "error"

\* C18: when the synthesis of one of the nine cells fails, generate() of illusion-faces
\* fails as a whole: it returns no Challenge, requests no later cell, and does not
\* request the failed cell again.
C18_CellFailureFailsAll ==
  (fgen = "illusion-faces" /\ failedCells # {}) =>
    /\ fpc = "done"
    /\ result.kind = "error"
    /\ Cardinality(failedCells) = 1
    /\ \A c \in failedCells : \A i \in 1..Len(requests) : requests[i] <= c
    /\ \A i, j \in 1..Len(requests) : i < j => requests[i] < requests[j]

C18_Witness ==
  /\ fgen = "illusion-faces"
  /\ failedCells = {4}
  /\ requests = <<1, 2, 3, 4>>
  /\ Len(images) = 3
  /\ result.kind = "error"
----------------------------------------------------------------------------
(* Properties of the registry and the builder *)

BuildDone == bpc = "done"

UnknownGeneratorError == built.kind = "error" /\ built.message.text = "Unknown generator"

\* C12: each of the seven generator ids the README lists as shipped is registered:
\* getGenerator returns a generator for it, and buildChallenge called with it never
\* fails with 'Unknown generator'.
C12_ShippedRegistered ==
  (BuildDone /\ buildId \in ShippedIds) =>
    /\ GetGenerator(buildId) # Undefined
    /\ ~UnknownGeneratorError

RegisteredIds ==
  {"grid-overlay", "proximity-text", "partial-occlusion", "illusory-contours",
   "abutting-grating", "emerging-image"}

\* C13: buildChallenge(id) for an id that is not in the registry fails with an
\* 'Unknown generator' error that names the requested id and lists every registered
\* id, and calls no generator's generate(); for a registered id it calls that
\* generator's generate(), once, and settles exactly as that call settles.
C13_BuildChallenge ==
  BuildDone =>
    IF buildId \notin RegisteredIds
    THEN /\ UnknownGeneratorError
         /\ built.message.requested = buildId
         /\ Range(built.message.available) = RegisteredIds
         /\ invoked = invokedBefore
    ELSE /\ invoked = Append(invokedBefore, buildId)
         /\ generated # NoResult
         /\ built = generated

C13_Witness ==
  /\ BuildDone
  /\ buildId = "no-such-generator"
  /\ built.kind = "error"
  /\ invoked = <<"grid-overlay">>
----------------------------------------------------------------------------
(* Properties of the eval harness *)

\* the records pushed so far, per model
RecordsOf(m) ==
  IF m <= Len(modelResults) THEN modelResults[m].challenges
  ELSE IF m = mi THEN results
  ELSE <<>>

\* C14: for every challenge and every answer of a model, the harness records
\* correct = true exactly when the parsed answer matches correctAnswer under the
\* verifier's rule (isAnswerCorrect: exact normalized match, or for a select-all
\* challenge at most one missed or extra cell); so correctAnswer ["1","4","7"] answered
\* "1,4" is recorded as correct.
C14_ScoredAsVerifier ==
  \A m \in 1..Len(EvalModels) : \A k \in 1..Len(RecordsOf(m)) :
    LET r == RecordsOf(m)[k]
    IN  <<m, k>> \notin thrown =>
          (r.correct <=> IsAnswerCorrect(Str(r.modelAnswer), r.correctAnswer))

\* C15: when the call of a model for one challenge throws, the challenge is recorded
\* with correct = false and latencyMs = 0 and the run goes on; every model's list
\* holds one record per challenge handled, in the order of the input, and at the end
\* of the run there is one such list per model, each with one record per input
\* challenge.
C15_ThrowRecorded ==
  /\ epc = "loop" => Len(results) = ci - 1
  /\ \A m \in 1..Len(modelResults) :
       /\ modelResults[m].modelId = EvalModels[m]
       /\ Len(modelResults[m].challenges) = Len(challenges)
  /\ \A m \in 1..Len(EvalModels) : \A k \in 1..Len(RecordsOf(m)) :
       /\ RecordsOf(m)[k].challengeId = challenges[k].id
       /\ <<m, k>> \in thrown =>
            /\ RecordsOf(m)[k].correct = FALSE
            /\ RecordsOf(m)[k].latencyMs = 0
  /\ epc = "done" => Len(modelResults) = Len(EvalModels)

C15_Witness ==
  /\ epc = "done"
  /\ thrown = {<<1, 1>>, <<2, 2>>}

\* C16: the harness never has more than one call of a model in flight: a call starts
\* only after the call before it has settled, in the order of the challenges within a
\* model and of the models.
C16_OneCallInFlight ==
  /\ inFlight <= 1
  /\ \A k \in 1..Len(evalLog) :
       IF evalLog[k].ev = "start"
       THEN k = 1 \/ (/\ evalLog[k - 1].ev = "end"
                      /\ \/ evalLog[k - 1].model < evalLog[k].model
                         \/ /\ evalLog[k - 1].model = evalLog[k].model
                            /\ evalLog[k - 1].i < evalLog[k].i)
       ELSE /\ k > 1
            /\ evalLog[k - 1] = [ev |-> "start", model |-> evalLog[k].model, i |-> evalLog[k].i]

C16_Witness ==
  /\ epc = "done"
  /\ Len(evalLog) = 2 * Len(EvalModels) * Len(EvalChallenges)
----------------------------------------------------------------------------
(* Properties of the challenge route *)

Issued == rpc = "done" /\ reply.status = 200

\* the challenge is held by the server: in the table or in the in-memory store
StoredServerSide(ch) ==
  \/ ch.id \in DOMAIN db /\ db[ch.id].payload = ch
  \/ ch.id \in DOMAIN store /\ store[ch.id] = ch

\* C19: the body GET /api/challenge answers an issued challenge with holds only
\* challengeId, generatorId, images, question, options and the format tag; it holds
\* neither correctAnswer nor metadata and is the same whatever correctAnswer and the
\* rest of metadata are; and the full challenge, correctAnswer included, is stored
\* server-side when the reply is sent.
C19_AnswerStripped ==
  Issued =>
    /\ DOMAIN reply.body \subseteq
         {"challengeId", "generatorId", "images", "question", "options", "format"}
    /\ "correctAnswer" \notin DOMAIN reply.body
    /\ "metadata" \notin DOMAIN reply.body
    /\ \A secret \in {Str(<<"A", "B">>), CellsAnswer({2, 3})} :
         reply.body =
           SerializeChallenge([rchallenge EXCEPT !.correctAnswer = secret,
                                                 !.metadata = [format |-> reply.body.format]])
    /\ StoredServerSide(rchallenge)

C19_Witness ==
  /\ Issued
  /\ reply.body.generatorId = "illusion-faces"
  /\ rchallenge.id \in DOMAIN db
----------------------------------------------------------------------------
(* Properties of the widget *)

----------------------------------------------------------------------------
(* Properties of the web store on select-all challenges *)

\* the store of the core holding the challenge the database returned, and nothing else
StoreOf(data) ==
  IF data = {} THEN EmptyMap
  ELSE LET ch == CHOOSE c \in data : TRUE IN MapSet(EmptyMap, ch.id, ch)

\* C21: when verifyChallenge returns, its success value is the one verify of the core
\* returns for the same stored challenge, the same submission and the same time,
\* whether the challenge was held in memory or in the table; so a select-all
\* submission one cell short or one cell over succeeds from the table too.
C21_SameAsCore ==
  [][\A q \in Verifiers :
       (proc[q].pc = "resume" /\ proc'[q].pc = "idle" /\ ~proc[q].error)
         => proc'[q].ret.success =
              VerifyResult(StoreOf(proc[q].data), proc[q].response, now).ret.success]_vars
----------------------------------------------------------------------------
(* Properties of the pending store and of the widget endpoints *)

Posted == plast.op = "verify"

\* the body names a challenge and a selection, whatever the handler makes of it
WellFormed(body) ==
  /\ "challengeId" \in DOMAIN body /\ body.challengeId # ""
  /\ "selectedCells" \in DOMAIN body /\ Len(body.selectedCells) > 0

\* the entry the request found was there and had time left
FoundLive == \E e \in plast.preEntry : e.expiresAt > plast.now

\* what the endpoint answers to a wrong answer on a live challenge
WrongAnswerReply == Reply(200, [success |-> FALSE])

\* C22: a well-formed POST /api/latcha/verify for a challenge id that is not pending,
\* or whose entry has expired, is answered exactly as a wrong answer on a live
\* challenge: same status, same fields.
C22_NotFoundAsWrong ==
  (Posted /\ WellFormed(plast.body) /\ ~FoundLive) => plast.reply = WrongAnswerReply

\* C23: consumePending returns the entry of an id at most once after each
\* storePending of it; the first call removes the entry, expired or not, and returns
\* it only if its expiresAt is later than the clock; every call after it, until the
\* id is stored again, returns undefined.
C23_ConsumeOnce ==
  /\ \A id \in PendingIds : returned[id] <= 1
  /\ \A id \in consumedSince : id \notin DOMAIN pendingEntries
  /\ (Posted /\ WellFormed(plast.body))
       => /\ plast.consumed
          /\ (plast.reply.status = 200) <=> FoundLive
          /\ (plast.reply.status # 200) => plast.reply.status = 404
          /\ plast.again => plast.reply.status = 404

\* an entry that had expired was consumed and removed, and a second call found nothing
C23_Witness ==
  /\ Posted /\ plast.again /\ plast.preEntry = {}
  /\ plast.body.challengeId = "p1"
  /\ returned["p1"] = 0
  /\ pnow > PENDING_TTL_MS

\* C28: a POST /api/latcha/verify whose body lacks challengeId, or lacks selectedCells
\* or has an empty list of them, is answered 400 and leaves the pending store as it
\* was: the entry is still there for a later well-formed request.
C28_BadRequestUntouched ==
  /\ (Posted /\ ~WellFormed(plast.body))
       => /\ plast.reply.status = 400
          /\ ~plast.consumed
          /\ plast.untouched
          /\ \A e \in plast.preEntry : pendingEntries[plast.body.challengeId] = e
  /\ (Posted /\ WellFormed(plast.body) /\ plast.statusBefore = 400 /\ FoundLive)
       => plast.reply.status = 200

\* a request with an empty selection, then the same challenge verified
C28_Witness ==
  /\ Posted /\ plast.statusBefore = 400
  /\ plast.reply = Reply(200, [success |-> TRUE, token |-> "p1"])

\* C29: the pending store holds one entry per id; storePending of an id that is
\* pending replaces the entry, which then lives five minutes from that moment; of the
\* verifications that follow the issuances of one id, the first is the only one
\* scored and the next finds no pending challenge.
C29_OneEntryPerId ==
  /\ plast.op = "issue"
       => /\ plast.id \in DOMAIN pendingEntries
          /\ pendingEntries[plast.id].expiresAt = plast.now + PENDING_TTL_MS
  /\ (Posted /\ plast.reply.status = 200) => ~plast.again /\ plast.handedBefore >= 1
  /\ (Posted /\ WellFormed(plast.body) /\ plast.again)
       => plast.reply.status = 404 /\ plast.handedBefore = 0

\* the id was handed out twice, verified once, and the second verification finds nothing
C29_Witness ==
  /\ Posted /\ plast.again /\ plast.reply.status = 404
  /\ plast.body.challengeId = "p1"
  /\ returned["p1"] = 1
  /\ plast.statusBefore = 200
  /\ plast.handedBeforeThat = 2
----------------------------------------------------------------------------
(* Properties of the ids issued *)

\* C24: no two challenges issued carry the same id, two issuances of one saved
\* generation included, and storing a challenge never replaces the entry of another
\* challenge that is pending.
C24_IdsUnique ==
  /\ \A i, j \in 1..Len(issuedIds) : i # j => issuedIds[i].id # issuedIds[j].id
  /\ last.op = "storeChallenge" => last.id \notin DOMAIN last.pre
----------------------------------------------------------------------------
(* Properties of the distractor loops *)

\* C25: the permutation loop makes at most 200 passes, each counted; the
\* substitution loop makes at most 50 and then fills up from the word list; under
\* fair draws the substitution loop, the fallback loop and the pickers come to their
\* return, the pickers with 3 characters; and what a loop returns has no duplicate
\* and does not hold the secret.
C25_LoopsTerminate ==
  /\ [](/\ gpc = "loop" => attempts < MaxAttempts
        /\ gen = "partial-occlusion" => attempts <= MaxSubstitutions
        /\ gpc = "fallback" => attempts = MaxSubstitutions
        /\ gpc = "pick" => attempts = 0
        /\ (gpc = "built" /\ gen # "grid-overlay") => Cardinality(distractors) = 3
        /\ token \notin distractors
        /\ challenge.op = "distractors"
             => /\ \A i, j \in 1..Len(challenge.ret) :
                     i # j => challenge.ret[i] # challenge.ret[j]
                /\ \A i \in 1..Len(challenge.ret) : challenge.ret[i] # challenge.secret)
  /\ [][(gpc = "loop" /\ gpc' = "loop") => attempts' = attempts + 1]_genVars
  /\ (gpc \in {"substitute", "fallback", "pick"} ~> gpc = "built")

\* generateDistractors returned after its 50 substitutions left it short of 3, with a
\* word of the list among the distractors
C25_Witness ==
  /\ challenge.op = "distractors"
  /\ challenge.generatorId = "partial-occlusion"
  /\ attempts = MaxSubstitutions
  /\ Len(challenge.ret) = 3
  /\ \E i \in 1..3 : challenge.ret[i] \in Range(WORDS)

\* C26: ensureFourAlternatives always terminates and returns exactly 4 pairwise
\* distinct alternatives that contain correctAlternative exactly once: what it returned
\* is such a list, and while it is in its loop some draw of
\* generateTokenLikeDistractor is a string not yet seen, without which no pass of the
\* loop adds an alternative and the loop never ends.
C26_FourAlternatives ==
  /\ altPc = "returned" =>
       /\ Len(alternatives) = 4
       /\ \A i, j \in 1..Len(alternatives) : alternatives[i] = alternatives[j] => i = j
       /\ Cardinality({i \in 1..Len(alternatives) : alternatives[i] = correctAlternative}) = 1
  /\ (altPc = "loop" /\ Len(altBase) < 4) =>
       \E candidate \in GenerateTokenLikeDistractor(correctAlternative, altSeen) :
         candidate \notin altSeen

\* the digits 1-9 that occur in a string, as a set of numbers
DigitSet(s) == {n \in 1..9 : \E i \in 1..Len(s) : s[i] = DigitChars[n + 1]}

\* the numbers of a set in ascending order, comma-joined
RECURSIVE AscendingJoined(_)
AscendingJoined(set) ==
  IF set = {} THEN <<>>
  ELSE LET least == CHOOSE n \in set : \A m \in set : n <= m
           rest == AscendingJoined(set \ {least})
       IN  IF rest = <<>> THEN <<DigitChars[least + 1]>>
           ELSE <<DigitChars[least + 1], ",">> \o rest

\* C27 as stated: parseAnswer without options returns the distinct digits 1-9 of the
\* response in ascending order, comma-joined, whatever else the response holds (a
\* function of the set of its digits alone), and parsing its result returns it again.
C27_DigitsOnly ==
  /\ parsePc # "ready" => parseOut = AscendingJoined(DigitSet(parseRaw))
  /\ parsePc = "reparsed" => parseOut = parseRaw

\* C27: for a response that holds a digit 1-9, parseAnswer without options returns
\* its distinct digits 1-9 in ascending order, comma-joined, a function of the set of
\* those digits alone; for a response that holds none it returns the response trimmed
\* and upper-cased; parsing its result returns it again.
C27_ParseSelectAll ==
  /\ DigitSet(parseRaw) # {} => parseOut = AscendingJoined(DigitSet(parseRaw))
  /\ DigitSet(parseRaw) = {} => parseOut = ToUpperCase(Trim(parseRaw))
  /\ parsePc = "reparsed" => parseOut = parseRaw

\* a response with the digits out of order, repeated, beside a letter
C27_Witness ==
  /\ parsePc = "parsed"
  /\ parseRaw = <<"3", "x", "1", "3">>
  /\ parseOut = <<"1", ",", "3">>

\* the ids pruneExpired would keep in the store st at time clock
PruneKeeps(st, clock) == DOMAIN PruneLoop(DOMAIN st, st, clock, 0).store

\* C30: verify and pruneExpired of the core store use the same expiry predicate, the
\* clock strictly after expiresAt: at any instant, for every stored entry and every
\* response to it, verify returns from its expired branch exactly when pruneExpired
\* would remove the entry, the verification made last found it so, and an entry at the
\* instant of its expiresAt is kept by pruneExpired and judged by verify on its answer.
C30_SameExpiry ==
  /\ \A response \in CoreResponses :
       response.challengeId \in DOMAIN store =>
         LET r == VerifyResult(store, response, now)
             kept == response.challengeId \in PruneKeeps(store, now)
         IN  /\ kept <=> r.branch # "expired"
             /\ now = store[response.challengeId].expiresAt =>
                  /\ kept
                  /\ r.ret.success = IsAnswerCorrect(response.answer,
                                                     store[response.challengeId].correctAnswer)
  /\ (last.op = "verify" /\ last.id \in DOMAIN last.pre) =>
       /\ last.branch = "expired" <=> last.id \notin PruneKeeps(last.pre, last.now)
       /\ last.now = last.pre[last.id].expiresAt => last.branch \in {"correct", "wrong"}

\* a correct answer was verified at the instant of expiresAt and succeeded, while
\* another entry of the store is past its expiresAt
C30_Witness ==
  /\ last.op = "verify"
  /\ last.id \in DOMAIN last.pre
  /\ last.now = last.pre[last.id].expiresAt
  /\ last.ret.success
  /\ \E i \in DOMAIN store : now > store[i].expiresAt

====
